---------------------------- MODULE Spec2Model ----------------------------
(***************************************************************************)
(* Model of the subnetwork loop of RecLayer (TFNetworkRecLayer.py):        *)
(* RecLayer._get_output_subnet_unit with its while-loop (cond / body), the *)
(* dynamic sequence-length bookkeeping, the accumulating TensorArrays, the *)
(* ChoiceLayer beam-search step and the backward search-resolve loop.      *)
(*                                                                         *)
(* The subnetwork is one layer "output".  Under search it is a ChoiceLayer *)
(* whose source scores are an input of every step; otherwise its per-step  *)
(* value is an input of every step.  The "end" layer output and the        *)
(* per-step loss / error values are inputs of every step as well.  Under   *)
(* search the subnetwork also has the RnnCellLayer "s" fed from            *)
(* "prev:output"; the scores of the choice are computed from "s" and the   *)
(* base network.  The cell of "s" is any function of its input and its     *)
(* previous state: its state is kept as the sequence of the inputs it has  *)
(* seen.                                                                   *)
(*                                                                         *)
(* Runs covered: losses are accumulated (eval_flag) only in runs without   *)
(* search and with known sequence lengths, where the lengths come from the *)
(* target; under search the subnetwork has the one choice layer "output".  *)
(*                                                                         *)
(* Index conventions: the program's indices (step i, beam index, label,    *)
(* flattened candidate index) are 0-based and kept 0-based as VALUES;      *)
(* TLA+ sequences are 1-based, so element idx of a tensor is at idx + 1.   *)
(***************************************************************************)
EXTENDS Integers, Sequences, FiniteSets, TLC

\* ---------------------------------------------------------------- bounds
\* batch_dim * beam_size (rows of a (batch * beam,) tensor) is at most MaxSlots
MaxSlots == 2
\* under search batch_dim is at most MaxSearchBatch
MaxSearchBatch == 1
\* sequence lengths / max_seq_len are at most MaxLen
MaxLen == 2
\* scores_in_dim: number of classes D of the ChoiceLayer source, and number of
\* distinct per-step output values without search
NumValues == 2
\* log-space score contributions of one step are in -MaxPenalty .. 0 when the
\* sequence lengths are known, and in -MaxPenaltyDyn .. 0 when they are not
MaxPenalty == 2
MaxPenaltyDyn == 1
\* beam sizes of the runs checked for termination
MaxFairBeam == 1
\* loss_scale of a layer is in 1 .. MaxLossScale
MaxLossScale == 2

\* the declaration has the layers "output", "end" and NumExtraLayers more
NumExtraLayers == 1
\* a layer of the declaration refers to at most MaxRefs layers
MaxRefs == 2

Labels == 0 .. (NumValues - 1)

\* ---------------------------------------------------------------- state
VARIABLES
  \* configuration, fixed before the loop
  batch_dim,                \* self.network.get_batch_dim()
  collected_choices,        \* names of the choice layers (empty: no search)
  output_beam_size,         \* beam size of "output", 0 stands for None
  have_known_seq_len,
  max_seq_len,
  layer_names_with_losses,  \* names of layers carrying a loss (eval_flag)
  loss_scale,               \* name of a layer carrying a loss -> its loss_scale
  loss_declared,            \* declared layers with a "loss" (eval_flag)
  \* what the loop is built from, and how building it ended
  self_max_seq_len,         \* self._max_seq_len, 0 when not configured
  extern_data,              \* data key of the subnetwork -> placeholder is set
  used_data_keys,           \* self.net.used_data_keys
  build_error,              \* the exception that ended the building
  net_layers,               \* names of self.net.layers of the step
  \* RecLayer: the unit, its input, and the final state it recorded
  cell_unit,                \* kind of self.cell
  rec_input,                \* [x, seq_len, direction, initial_state], or None
  last_hidden_state,        \* self._last_hidden_state
  hidden_state_call,        \* how get_last_hidden_state() ended
  \* loop variables of tf.while_loop(cond, body, init_loop_vars)
  pc,                       \* "RUNNING", "RESOLVE" or "DONE"
  i,                        \* loop counter
  net_vars,                 \* (outputs_flat, extra_flat) of the cell
  acc_tas,                  \* name -> TensorArray
  seq_len_info,             \* [end_flag, dyn_seq_len], or NoSeqLenInfo
  \* seq_len: known lengths before the loop, the dynamic ones after it
  seq_len,
  \* what the steps produced (not program state: a record of each step)
  step_log,
  \* search-resolve loop
  rs_i, choice_beams, new_acc_output_ta,
  \* results
  size_placeholder,         \* self.output.size_placeholder[0]
  output,                   \* return value of _get_output_subnet_unit
  sub_loss,                 \* [loss, error, norm_den, failed] or NoLoss
  beam_scores,              \* self.search_choices.beam_scores (final)
  \* DecideLayer applied to the output of the rec layer
  decide_output,            \* [placeholder, size_placeholder, beam_idxs]
  \* _SubnetworkRecCell: the declaration and the template graph
  net_dict,                 \* name -> the layers it refers to
  layer_data_templates,     \* names of the template layers
  dependencies,             \* name -> _TemplateLayer.dependencies (names)
  template_output,          \* name -> the Data object _TemplateLayer.output
  prev_layers_needed,
  \* _SubnetworkRecCell._construct_template
  construct_pc,             \* "START", "OUTPUT", "AFTER_OUTPUT", "END", "DONE", "ERROR"
  construct_ctx,            \* construct_ctx.layers, with what each still asks for
  construct_error,          \* the exception that ended the construction
  \* _SubnetworkRecCell.move_outside_loop
  hoist_pc,                 \* "IDLE", "OUTPUT", "INPUT" or "END"
  hoist_round,              \* rounds of the while-loop begun so far
  layers_in_loop,
  input_layers_moved_out,
  output_layers_moved_out,
  needed_outputs,
  output_layer              \* the layer found by the output search, or NoLayer

buildVars == <<self_max_seq_len, extern_data, used_data_keys, build_error,
               net_layers>>
stateVars == <<cell_unit, rec_input, last_hidden_state, hidden_state_call>>
cfgVars == <<batch_dim, collected_choices, output_beam_size, have_known_seq_len,
             max_seq_len, layer_names_with_losses, loss_scale, loss_declared,
             buildVars, stateVars>>
loopVars == <<i, net_vars, acc_tas, seq_len_info, step_log>>
resolveVars == <<rs_i, choice_beams, new_acc_output_ta>>
resultVars == <<size_placeholder, output, sub_loss, beam_scores>>
templateVars == <<net_dict, layer_data_templates, dependencies,
                  template_output, prev_layers_needed, construct_pc,
                  construct_ctx, construct_error>>
hoistVars == <<hoist_pc, hoist_round, layers_in_loop, input_layers_moved_out,
               output_layers_moved_out, needed_outputs, output_layer>>
vars == <<cfgVars, pc, loopVars, seq_len, resolveVars, resultVars,
          decide_output, templateVars, hoistVars>>

\* ---------------------------------------------------------------- helpers
None == <<>>
NoSeqLenInfo == [end_flag |-> <<>>, dyn_seq_len |-> <<>>, present |-> FALSE]
NoLoss == [loss |-> 0, error |-> 0, norm_den |-> 0, failed |-> FALSE,
           present |-> FALSE]
NoDecision == [placeholder |-> <<>>, size_placeholder |-> <<>>,
               beam_idxs |-> <<>>, present |-> FALSE]
\* no layer found (the searches of move_outside_loop return None)
NoLayer == ""
NoError == ""
\* get_last_hidden_state() has not been called
NoCall == [called |-> FALSE, error |-> NoError, value |-> <<>>]

Max(a, b) == IF a >= b THEN a ELSE b
Min(a, b) == IF a <= b THEN a ELSE b

RECURSIVE SeqMax(_)
\* tf.reduce_max over a non-empty int vector
SeqMax(s) == IF Len(s) = 1 THEN s[1] ELSE Max(s[1], SeqMax(Tail(s)))

RECURSIVE SeqSum(_)
\* tf.reduce_sum over an int vector
SeqSum(s) == IF Len(s) = 0 THEN 0 ELSE s[1] + SeqSum(Tail(s))

\* number of hypotheses per example: output_beam_size or 1
BeamOr1 == IF output_beam_size = 0 THEN 1 ELSE output_beam_size
\* rows of a (batch * beam,) tensor
Slots == batch_dim * BeamOr1

\* tf.reshape of a (n * m, ...) tensor to (n, m, ...)
Reshape2(flat, n, m) == [b \in 1..n |-> [k \in 1..m |-> flat[(b - 1) * m + k]]]
\* tf.reshape of a (n, m, ...) tensor to (n * m, ...)
Flatten2(mat, n, m) ==
  [s \in 1..(n * m) |-> mat[((s - 1) \div m) + 1][((s - 1) % m) + 1]]

\* TFUtil.tile_transposed(x, axis=0, multiples=m): every entry repeated m times
TileTransposed(x, m) == [s \in 1..(Len(x) * m) |-> x[((s - 1) \div m) + 1]]

\* TFUtil.constant_with_shape(c, shape=[n])
ConstantWithShape(c, n) == [s \in 1..n |-> c]

\* ---------------------------------------------------------------- TensorArray
TAEmpty == [written |-> FALSE, value |-> <<>>]
\* tf.TensorArray(size=n, dynamic_size=True)
TANew(n) == [j \in 1..n |-> TAEmpty]
TASize(ta) == Len(ta)

\* a write at a wrong index: one position too late
TAWriteOffByOne(ta, idx, v) ==
  LET n == Max(Len(ta), idx + 2)
  IN  [j \in 1..n |-> IF j = idx + 2 THEN [written |-> TRUE, value |-> v]
                      ELSE IF j <= Len(ta) THEN ta[j] ELSE TAEmpty]

\* TensorArray.write(idx, v); the array grows when idx >= size (dynamic_size)
TAWrite(ta, idx, v) ==
  LET n == Max(Len(ta), idx + 1)
  IN  [j \in 1..n |-> IF j = idx + 1 THEN [written |-> TRUE, value |-> v]
                      ELSE IF j <= Len(ta) THEN ta[j] ELSE TAEmpty]

\* TensorArray.read(idx)
TARead(ta, idx) == ta[idx + 1].value
\* TensorArray.stack()
TAStack(ta) == [j \in 1..Len(ta) |-> ta[j].value]
\* indices (0-based) that hold a written element
TAWritten(ta) == {j - 1 : j \in {q \in 1..Len(ta) : ta[q].written}}


\* ---------------------------------------------------------------- ChoiceLayer
\* the best remaining index under a wrong tie-break: highest index first
BestIndexHighestFirst(row, avail) ==
  CHOOSE f \in avail :
    \A g \in avail : row[f] > row[g] \/ (row[f] = row[g] /\ f >= g)

\* a tie-break that is not a function of the scores: it varies with the step
BestIndexTieVaries(row, avail) ==
  CHOOSE f \in avail :
    \A g \in avail :
      row[f] > row[g] \/ (row[f] = row[g] /\ IF i % 2 = 0 THEN f <= g ELSE f >= g)

\* the index tf.nn.top_k returns next: the largest remaining entry, and of
\* equal entries the one with the lower index (positions are 1-based here)
BestIndex(row, avail) ==
  CHOOSE f \in avail :
    \A g \in avail : row[f] > row[g] \/ (row[f] = row[g] /\ f <= g)

RECURSIVE TopKRec(_, _, _)
TopKRec(row, k, taken) ==
  IF k = 0 THEN <<>>
  ELSE LET best == BestIndex(row, (1..Len(row)) \ taken)
       IN  <<best - 1>> \o TopKRec(row, k - 1, taken \cup {best})

\* tf.nn.top_k(row, k): 0-based indices of the k largest entries, sorted by
\* descending value
TopKIndices(row, k) == TopKRec(row, k, {})

\* candidate scores that forget the incoming beam score
ScoresInFlatNoBase(scores_base, scores_in, n, beam_in, dim) ==
  LET r == Reshape2(scores_in, n, beam_in)
  IN  [b \in 1..n |-> Flatten2(r[b], beam_in, dim)]

\* scores_in reshaped to (batch, beam_in, dim), scores_base added, flattened to
\* (batch, beam_in * dim)
ScoresInFlat(scores_base, scores_in, n, beam_in, dim) ==
  LET r == Reshape2(scores_in, n, beam_in)
      added == [b \in 1..n |-> [k \in 1..beam_in |->
                 [d \in 1..dim |-> r[b][k][d] + scores_base[b][k]]]]
  IN  [b \in 1..n |-> Flatten2(added[b], beam_in, dim)]

\* a decode with quotient and remainder exchanged
SrcBeamsSwapped(labels, dim) == labels % dim

\* labels // scores_in_dim
SrcBeamsOf(labels, dim) == labels \div dim

\* labels % scores_in_dim
LabelOf(labels, dim) == labels % dim

\* the score tf.nn.top_k returns with index `labels` of the row `flat`
ChoiceScores(flat, labels) == flat[labels + 1]

\* ChoiceLayer.__init__ under search, input_type "log_prob"
ChoiceLayer(scores_base, scores_in, beam_size) ==
  LET n == batch_dim
      beam_in == Len(scores_base[1])
      dim == NumValues
      flat == ScoresInFlat(scores_base, scores_in, n, beam_in, dim)
      top == [b \in 1..n |-> TopKIndices(flat[b], beam_size)]
      src == [b \in 1..n |-> [k \in 1..beam_size |-> SrcBeamsOf(top[b][k], dim)]]
      lab == [b \in 1..n |-> [k \in 1..beam_size |-> LabelOf(top[b][k], dim)]]
      sc  == [b \in 1..n |-> [k \in 1..beam_size |-> ChoiceScores(flat[b], top[b][k])]]
  IN  [scores_base |-> scores_base,
       scores_in |-> scores_in,
       scores_in_flat |-> flat,
       top_k |-> top,
       src_beams |-> src,
       labels |-> Flatten2(lab, n, beam_size),
       beam_scores |-> sc]

\* SearchChoices.filter_seqs(seq_filter_cond): the mask of the hypotheses that
\* are still active is recorded with the choice
FilterSeqs(choice, seq_filter_cond) ==
  [src_beams |-> choice.src_beams,
   beam_scores |-> choice.beam_scores,
   seq_filter_cond |-> seq_filter_cond]

\* initial scores for a single incoming hypothesis per example
InitialChoiceScoresOneBeam(n, beam_size) == [b \in 1..n |-> <<0>>]

\* ChoiceLayer.get_rec_initial_extra_outputs: tf.zeros([batch_dim, beam_size])
InitialChoiceScores(n, beam_size) == [b \in 1..n |-> [k \in 1..beam_size |-> 0]]

\* ---------------------------------------------------------------- declarations
\* layer names, in the order of sorted()
NameOrder == <<"a", "b", "c", "end", "output", "s">>
ExtraLayerNames == {NameOrder[j] : j \in 1..NumExtraLayers}
LayerNames == {"output", "end"} \cup ExtraLayerNames

\* sorted(names)
Sorted(names) == SelectSeq(NameOrder, LAMBDA n : n \in names)
SeqToSet(q) == {q[j] : j \in 1..Len(q)}
\* everything but the last element of the list
Front(q) == SubSeq(q, 1, Len(q) - 1)
\* list.remove(x) of a list without duplicates
Remove(q, x) == SelectSeq(q, LAMBDA y : y # x)

\* a reference to a layer of the subnetwork: "X" or "prev:X"
Refs(names) == [name : names, prev : BOOLEAN]

\* TFNetwork._construct_layer(net_dict, name, get_layer, add_layer): the
\* layers that the construction of `name` asks get_layer for
ConstructLayerRefs(nd, name) == nd[name]

RECURSIVE SameStepClosure(_, _)
\* the layers constructed when get_layer is called for the names in `done`:
\* a "prev:" reference is answered from prev_layers and constructs nothing
SameStepClosure(nd, done) ==
  LET more == done \cup
              {r.name : r \in {q \in UNION {ConstructLayerRefs(nd, n) : n \in done} :
                                ~q.prev}}
  IN  IF more = done THEN done ELSE SameStepClosure(nd, more)

\* ---------------------------------------------------------------- RnnCellLayer
\* RnnCellLayer.get_rec_initial_extra_outputs: the initial state of every row
InitialRnnState(n) == [s \in 1..n |-> <<>>]

\* RnnCellLayer.__init__: self.cell(input, prev_state) row by row; the new
\* state of a row is its previous state extended by its input
RnnCellState(input, prev_state) ==
  [s \in 1..Len(prev_state) |-> Append(prev_state[s], input[s])]

\* ---------------------------------------------------------------- the loop
Search == collected_choices # <<>>
Eval == layer_names_with_losses # {}

\* the names of the accumulated loss and error of a layer
LossName(name) == "loss_" \o name
ErrorName(name) == "error_" \o name

\* for layer_name in layer_names_with_losses: "loss_%s", "error_%s"; the
\* layers are taken in sorted order
LossOutputs ==
  LET names == Sorted(layer_names_with_losses)
  IN  [j \in 1..(2 * Len(names)) |->
         IF j % 2 = 1 THEN LossName(names[(j + 1) \div 2])
         ELSE ErrorName(names[j \div 2])]

\* outputs_to_accumulate, in the order of the list
OutputsToAccumulate ==
  <<"output_output">>
  \o LossOutputs
  \o (IF Search THEN <<"choice_output">> ELSE <<>>)

AccNames == {OutputsToAccumulate[j] : j \in 1..Len(OutputsToAccumulate)}

\* a loop that runs one step too many
CondOneMore(step, info) ==
  /\ step <= max_seq_len
  /\ info.present => \E s \in 1..Len(info.end_flag) : ~info.end_flag[s]

\* a loop that is not bounded by max_seq_len
CondNoMaxLen(step, info) ==
  IF info.present
  THEN \E s \in 1..Len(info.end_flag) : ~info.end_flag[s]
  ELSE step < max_seq_len

\* a loop that also runs when every sequence has ended
CondIgnoresEnd(step, info) == step < max_seq_len

\* cond(i, net_vars, acc_ta, seq_len_info)
Cond(step, info) ==
  /\ step < max_seq_len
  /\ info.present => \E s \in 1..Len(info.end_flag) : ~info.end_flag[s]

\* a length count that also counts the step that sees the end signal
NextSeqLenInfoCountsEnd(info, end_out) ==
  [end_flag |-> [s \in 1..Len(info.end_flag) |-> info.end_flag[s] \/ end_out[s]],
   dyn_seq_len |-> [s \in 1..Len(info.end_flag) |->
                      info.dyn_seq_len[s] + (IF info.end_flag[s] THEN 0 ELSE 1)],
   present |-> TRUE]

\* an update that takes the end signal of the step for the flag
NextSeqLenInfoFlagOfStep(info, end_out) ==
  [end_flag |-> end_out,
   dyn_seq_len |-> [s \in 1..Len(end_out) |->
                      info.dyn_seq_len[s] + (IF end_out[s] THEN 0 ELSE 1)],
   present |-> TRUE]

\* body: end_flag = end_flag or end; dyn_seq_len += where(end_flag, 0, 1)
NextSeqLenInfo(info, end_out) ==
  LET flag == [s \in 1..Len(info.end_flag) |-> info.end_flag[s] \/ end_out[s]]
  IN  [end_flag |-> flag,
       dyn_seq_len |-> [s \in 1..Len(flag) |->
                          info.dyn_seq_len[s] + (IF flag[s] THEN 0 ELSE 1)],
       present |-> TRUE]

\* body: seq_filter_cond, reshaped to (batch, beam)
SeqFilterCond(step, info) ==
  LET flat == IF have_known_seq_len
              THEN [s \in 1..Slots |-> step < seq_len[s]]
              ELSE [s \in 1..Slots |-> ~info.end_flag[s]]
  IN  Reshape2(flat, batch_dim, output_beam_size)

\* the inputs of one step
Scores ==
  IF have_known_seq_len THEN (0 - MaxPenalty)..0 ELSE (0 - MaxPenaltyDyn)..0
SrcScoreInputs ==
  IF Search THEN [1..Slots -> [1..NumValues -> Scores]] ELSE {None}
OutputInputs == IF Search THEN {None} ELSE [1..Slots -> Labels]
EndInputs == IF have_known_seq_len THEN {None} ELSE [1..Slots -> BOOLEAN]
LossInputs == [layer_names_with_losses -> [1..batch_dim -> 0..1]]

\* position of the key x in the sorted key list q
KeyIndex(q, x) == CHOOSE j \in 1..Len(q) : q[j] = x

\* sorted(self.prev_layers_needed): the keys of outputs_flat
PrevOutputKeys == Sorted(prev_layers_needed)

\* the layers whose class gives initial extra outputs: ChoiceLayer under
\* search ("choice_scores") and RnnCellLayer ("state")
InitialExtraLayers ==
  {name \in layer_data_templates : (name = "output" /\ Search) \/ name = "s"}

\* sorted(self._initial_extra_outputs): the keys of extra_flat
InitialExtraKeys == Sorted(InitialExtraLayers)

\* _get_init_output(name)
GetInitOutput(name) ==
  IF name = "end" THEN ConstantWithShape(FALSE, Slots)
  ELSE ConstantWithShape(0, Slots)

\* _get_init_extra_outputs(name): the one recurrent variable of the layer
GetInitExtraOutputs(name) ==
  IF name = "s" THEN InitialRnnState(Slots)
  ELSE InitialChoiceScores(batch_dim, output_beam_size)

\* get_init_loop_vars()
GetInitLoopVars ==
  [outputs_flat |-> [j \in 1..Len(PrevOutputKeys) |->
                       GetInitOutput(PrevOutputKeys[j])],
   extra_flat |-> [j \in 1..Len(InitialExtraKeys) |->
                     GetInitExtraOutputs(InitialExtraKeys[j])]]

\* a zip that hands every name its value with the rows moved up by one
ZipPrevRotated(keys, flat) ==
  [name \in SeqToSet(keys) |->
     LET v == flat[KeyIndex(keys, name)]
     IN  [s \in 1..Len(v) |-> v[(s % Len(v)) + 1]]]

\* get_next_loop_vars: {k: v for (k, v) in zip(sorted(keys), flat)}
ZipPrev(keys, flat) ==
  [name \in SeqToSet(keys) |-> flat[KeyIndex(keys, name)]]

\* a key list of the step that leaves out the choice layer
StepExtraKeysNoChoice(rec_layers) ==
  Sorted((layer_data_templates \cap rec_layers) \ {"output"})

\* get_next_loop_vars: the keys of the new extra_flat, sorted(
\* layer_data_templates) restricted to the layers with rec_vars_outputs
StepExtraKeys(rec_layers) == Sorted(layer_data_templates \cap rec_layers)

\* _construct: the layers get_layer constructs in a step: "output", the
\* layers of prev_layers_needed, "end" if declared, and all they ask for in
\* the same step
ConstructedLayers ==
  SameStepClosure(net_dict,
                  {"output"} \cup prev_layers_needed
                    \cup ({"end"} \cap DOMAIN net_dict))

\* body(i, net_vars, acc_tas, seq_len_info)
Body ==
  /\ pc = "RUNNING"
  /\ Cond(i, seq_len_info)
  /\ \E src_scores \in SrcScoreInputs, out_val \in OutputInputs,
        end_out \in EndInputs, loss_val \in LossInputs, error_val \in LossInputs :
       LET \* cell.get_next_loop_vars: the carried values by name
           prev_outputs == ZipPrev(PrevOutputKeys, net_vars.outputs_flat)
           prev_extra == ZipPrev(InitialExtraKeys, net_vars.extra_flat)
           \* _construct: the layers of this step
           choice == IF Search
                     THEN ChoiceLayer(prev_extra["output"], src_scores,
                                      output_beam_size)
                     ELSE None
           out == IF Search THEN choice.labels ELSE out_val
           state == IF Search
                    THEN RnnCellState(prev_outputs["output"], prev_extra["s"])
                    ELSE None
           outputs == [name \in ConstructedLayers |->
                         CASE name = "output" -> out
                           [] name = "end" -> end_out
                           [] name = "s" -> state
                           [] OTHER -> ConstantWithShape(0, Slots)]
           rec_vars_outputs ==
             [name \in {n \in ConstructedLayers :
                          (n = "output" /\ Search) \/ n = "s"} |->
                IF name = "s" THEN state ELSE choice.beam_scores]
           extra_keys == StepExtraKeys(DOMAIN rec_vars_outputs)
           next_net_vars ==
             [outputs_flat |-> [j \in 1..Len(PrevOutputKeys) |->
                                  outputs[PrevOutputKeys[j]]],
              extra_flat |-> [j \in 1..Len(extra_keys) |->
                                rec_vars_outputs[extra_keys[j]]]]
           info == IF seq_len_info.present
                   THEN NextSeqLenInfo(seq_len_info, end_out)
                   ELSE seq_len_info
           filtered == IF Search
                       THEN FilterSeqs(choice, SeqFilterCond(i, info))
                       ELSE None
           \* out.get() of every accumulated output
           produced == [name \in AccNames |->
                          CASE name = "output_output" -> out
                            [] name = "choice_output" -> filtered.src_beams
                            [] \E n \in layer_names_with_losses :
                                 name = LossName(n) ->
                                 loss_val[CHOOSE n \in layer_names_with_losses :
                                            name = LossName(n)]
                            [] OTHER ->
                                 error_val[CHOOSE n \in layer_names_with_losses :
                                             name = ErrorName(n)]]
       IN  /\ net_vars' = next_net_vars
           /\ seq_len_info' = info
           /\ acc_tas' = [name \in AccNames |->
                            TAWrite(acc_tas[name], i, produced[name])]
           /\ step_log' = Append(step_log,
                [i |-> i, produced |-> produced, end |-> end_out,
                 choice |-> choice, filtered |-> filtered,
                 extra_flat |-> next_net_vars.extra_flat,
                 prev_outputs |-> prev_outputs, prev_extra |-> prev_extra,
                 outputs |-> outputs, rec_vars_outputs |-> rec_vars_outputs,
                 output_keys |-> PrevOutputKeys, extra_keys |-> extra_keys])
  /\ i' = i + 1
  /\ UNCHANGED <<cfgVars, pc, seq_len, resolveVars, resultVars>>
  /\ UNCHANGED <<decide_output, templateVars, hoistVars>>

\* TFUtil.sequence_mask_time_major(seq_len)[t][b], t 0-based
SequenceMask(lens, t, b) == t < lens[b]

\* reduce_sum(where(mask, value, 0)) of a stacked (time, batch) value
MaskedSum(value, lens) ==
  SeqSum([t \in 1..Len(value) |->
            SeqSum([b \in 1..Len(lens) |->
                      IF SequenceMask(lens, t - 1, b) THEN value[t][b] ELSE 0])])

\* rows of sequence_mask_time_major(seq_len): reduce_max(seq_len)
MaskRows(lens) == SeqMax(lens)

\* tf.where(mask, value, zeros_like(value)) wants mask and value of one shape
WhereShapesAgree(value, lens) == Len(value) = MaskRows(lens)

RECURSIVE SumLosses(_, _, _)
\* self._sub_loss after the layers names[1..n]: the masked sum of every
\* layer times its loss_scale, added up
SumLosses(tas, lens, names) ==
  IF names = <<>> THEN 0
  ELSE SumLosses(tas, lens, Front(names))
       + MaskedSum(TAStack(tas[LossName(names[Len(names)])]), lens)
         * loss_scale[names[Len(names)]]

\* the accumulated loss and error of the layer, with the normalization factor
\* 1.0 / norm_den; the error is the one of the last layer in sorted order;
\* failed when tf.where is given a mask and a value of different shapes
SubLoss(tas, lens) ==
  LET names == Sorted(layer_names_with_losses)
  IN  IF ~Eval THEN NoLoss
      ELSE IF \E n \in layer_names_with_losses :
                ~WhereShapesAgree(TAStack(tas[LossName(n)]), lens)
      THEN [loss |-> 0, error |-> 0, norm_den |-> 0, failed |-> TRUE,
            present |-> TRUE]
      ELSE [loss |-> SumLosses(tas, lens, names),
            error |-> MaskedSum(TAStack(tas[ErrorName(names[Len(names)])]), lens),
            norm_den |-> SeqSum(lens),
            failed |-> FALSE,
            present |-> TRUE]

\* a slice that keeps one step more than the maximum length
FinalOutputOneMore(ta, lens) ==
  LET st == TAStack(ta)
  IN  IF have_known_seq_len THEN st
      ELSE SubSeq(st, 1, Min(SeqMax(lens) + 1, Len(st)))

\* output = acc_ta.stack(); output[:reduce_max(seq_len)] when the length was
\* not known
FinalOutput(ta, lens) ==
  LET st == TAStack(ta)
  IN  IF have_known_seq_len THEN st
      ELSE SubSeq(st, 1, Min(SeqMax(lens), Len(st)))

\* a backward walk that starts one step too early
InitialResolveIndexSkipsLast(size) == size - 2

\* initial i of the search-resolve loop: final_acc_tas[0].size() - 1
InitialResolveIndex(size) == size - 1

\* the loop has ended: the code between the two while-loops, and up to the
\* return when there is no search
LoopExit ==
  /\ pc = "RUNNING"
  /\ ~Cond(i, seq_len_info)
  /\ LET lens == IF have_known_seq_len THEN seq_len ELSE seq_len_info.dyn_seq_len
         size == TASize(acc_tas["output_output"])
     IN  /\ seq_len' = lens
         /\ size_placeholder' = lens
         /\ sub_loss' = SubLoss(acc_tas, lens)
         /\ IF Search
            THEN /\ pc' = "RESOLVE"
                 /\ rs_i' = InitialResolveIndex(size)
                 /\ choice_beams' = [b \in 1..batch_dim |->
                                       [k \in 1..output_beam_size |-> k - 1]]
                 /\ new_acc_output_ta' = TANew(size)
                 /\ UNCHANGED output
            ELSE /\ pc' = "DONE"
                 /\ output' = FinalOutput(acc_tas["output_output"], lens)
                 /\ UNCHANGED resolveVars
  /\ UNCHANGED <<cfgVars, loopVars, beam_scores>>
  /\ UNCHANGED <<decide_output, templateVars, hoistVars>>

\* a gather that keeps every entry at its raw slot position
GatherBeamsNoReindex(x, idx) ==
  [b \in 1..Len(idx) |-> [k \in 1..Len(idx[b]) |-> x[b][k]]]

\* a gather that takes the entry of the parent of the parent
GatherBeamsTwice(x, idx) ==
  [b \in 1..Len(idx) |-> [k \in 1..Len(idx[b]) |-> x[b][idx[b][idx[b][k] + 1] + 1]]]

\* tf.gather_nd(x, nd_indices(idx)) of a (batch, beam, ...) tensor
GatherBeams(x, idx) ==
  [b \in 1..Len(idx) |-> [k \in 1..Len(idx[b]) |-> x[b][idx[b][k] + 1]]]

\* search_resolve_body(i, choice_beams, new_acc_output_ta)
SearchResolveBody ==
  /\ pc = "RESOLVE"
  /\ rs_i >= 0
  /\ LET src_choice_beams ==
           GatherBeams(TARead(acc_tas["choice_output"], rs_i), choice_beams)
         raw == Reshape2(TARead(acc_tas["output_output"], rs_i),
                         batch_dim, output_beam_size)
         out == Flatten2(GatherBeams(raw, choice_beams),
                         batch_dim, output_beam_size)
     IN  /\ new_acc_output_ta' = TAWrite(new_acc_output_ta, rs_i, out)
         /\ choice_beams' = src_choice_beams
         /\ rs_i' = rs_i - 1
  /\ UNCHANGED <<cfgVars, pc, loopVars, seq_len, resultVars>>
  /\ UNCHANGED <<decide_output, templateVars, hoistVars>>

\* the search-resolve loop has ended: the code up to the return
SearchResolveExit ==
  /\ pc = "RESOLVE"
  /\ rs_i < 0
  /\ acc_tas' = [acc_tas EXCEPT !["output_output"] = new_acc_output_ta]
  /\ beam_scores' = net_vars.extra_flat[1]
  /\ output' = FinalOutput(new_acc_output_ta, seq_len)
  /\ pc' = "DONE"
  /\ UNCHANGED <<cfgVars, i, net_vars, seq_len_info, step_log, seq_len,
                 resolveVars, size_placeholder, sub_loss>>
  /\ UNCHANGED <<decide_output, templateVars, hoistVars>>

\* ---------------------------------------------------------------- DecideLayer
\* an index that need not be one of a largest entry
ArgMaxAnyIndex(row) == 0..(Len(row) - 1)

\* tf.argmax(row): the index of a largest entry; in case of ties the identity
\* of the returned index is not guaranteed, so every index of a largest entry
\* is a possible result
ArgMax(row) ==
  {k - 1 : k \in {q \in 1..Len(row) : \A r \in 1..Len(row) : row[q] >= row[r]}}

\* Data.copy_as_batch_major of a (time, n) tensor: (n, time)
CopyAsBatchMajor(x, n) == [s \in 1..n |-> [t \in 1..Len(x) |-> x[t][s]]]

\* DecideLayer.decide(src) with src the rec layer, under search
Decide ==
  /\ pc = "DONE" /\ Search /\ ~decide_output.present
  /\ \E beam_idxs \in [1..batch_dim -> 0..(output_beam_size - 1)] :
       /\ \A b \in 1..batch_dim : beam_idxs[b] \in ArgMax(beam_scores[b])
       /\ LET src_data == CopyAsBatchMajor(output, Slots)
              src_output == Reshape2(src_data, batch_dim, output_beam_size)
              size == Reshape2(size_placeholder, batch_dim, output_beam_size)
          IN  decide_output' =
                [placeholder |->
                   IF batch_dim * output_beam_size * Len(output) > 0
                   THEN [b \in 1..batch_dim |-> src_output[b][beam_idxs[b] + 1]]
                   ELSE [b \in 1..batch_dim |-> src_output[b][1]],
                 size_placeholder |->
                   [b \in 1..batch_dim |-> size[b][beam_idxs[b] + 1]],
                 beam_idxs |-> beam_idxs,
                 present |-> TRUE]
  /\ UNCHANGED <<cfgVars, pc, loopVars, seq_len, resolveVars, resultVars,
                 templateVars, hoistVars>>

\* ---------------------------------------------------------------- templates
\* the declarations: "output" is declared, every reference is to a declared
\* layer
NetDicts ==
  UNION {[declared -> {r \in SUBSET Refs(declared) : Cardinality(r) <= MaxRefs}] :
           declared \in {d \in SUBSET LayerNames : "output" \in d}}

RECURSIVE TemplatedFrom(_, _)
\* the names that have a template once get_templated_layer has returned for
\* the names in `done`
TemplatedFrom(nd, done) ==
  LET more == done \cup
              {r.name : r \in UNION {ConstructLayerRefs(nd, n) : n \in done}}
  IN  IF more = done THEN done ELSE TemplatedFrom(nd, more)

\* _SubnetworkRecCell._construct_template; ok is false when resolving the
\* entry point "end" finds its template already there and reads the top of
\* the empty construction stack
ConstructTemplate(nd) ==
  LET from_output == TemplatedFrom(nd, {"output"})
      has_end == "end" \in DOMAIN nd
      templates == IF has_end THEN TemplatedFrom(nd, from_output \cup {"end"})
                   ELSE from_output
      refs == UNION {ConstructLayerRefs(nd, n) : n \in templates}
  IN  [ok |-> ~(has_end /\ "end" \in from_output),
       layer_data_templates |-> templates,
       dependencies |-> [n \in templates |->
                           {r.name : r \in ConstructLayerRefs(nd, n)}],
       prev_layers_needed |-> {r.name : r \in {q \in refs : q.prev}}]

\* _TemplateLayer.__init__: the dummy output, out_type={"shape": ()}
DummyData == [dtype |-> "float32", placeholder |-> None,
              size_placeholder |-> <<>>, beam_size |-> 0]

\* layer_class.get_out_data_from_opts(**layer_desc) of the layer `name`: the
\* "end" layer gives booleans, a choice under search has its beam size
TemplateData(name) ==
  [dtype |-> IF name = "end" THEN "bool" ELSE "int32",
   placeholder |-> None,
   size_placeholder |-> <<>>,
   beam_size |-> IF name = "output" THEN output_beam_size ELSE 0]

\* every template is as _TemplateLayer.init left it
TemplatesFresh ==
  template_output = [n \in layer_data_templates |-> TemplateData(n)]

\* copy_as_prev_time_frame(prev_output, rec_vars_prev_outputs) of the
\* template `name`: init(**self.kwargs) makes the Data object of the template
\* the output of the copy as well (kwargs["output"] is that object), so what
\* is assigned to l.output is assigned to the output of the template
CopyAsPrevTimeFrame(data, has_prev_output, has_search_choices, beam) ==
  LET with_output ==
        IF has_prev_output
        THEN [data EXCEPT !.placeholder = <<"prev_output">>,
                          !.size_placeholder = <<>>]
        ELSE data
  IN  IF has_search_choices THEN [with_output EXCEPT !.beam_size = beam]
      ELSE with_output

\* _construct: a "prev:" copy is made of every template with a carried
\* output or carried recurrent variables
PrevFramesCopied(outputs) ==
  [n \in DOMAIN outputs |->
     IF n \in prev_layers_needed \cup InitialExtraLayers
     THEN CopyAsPrevTimeFrame(outputs[n], n \in prev_layers_needed,
                              n = "output" /\ Search, output_beam_size)
     ELSE outputs[n]]

\* the cell has been constructed from the declaration nd
CellConstructed(nd) ==
  LET t == ConstructTemplate(nd)
  IN  /\ t.ok
      /\ net_dict = nd
      /\ layer_data_templates = t.layer_data_templates
      /\ dependencies = t.dependencies
      /\ prev_layers_needed = t.prev_layers_needed
      /\ construct_pc = "DONE"
      /\ construct_ctx = <<>>
      /\ construct_error = NoError

\* every declaration: any of the layers may be declared or not, and a
\* reference may name a layer that is not declared
AllNetDicts ==
  UNION {[declared -> {r \in SUBSET Refs(LayerNames) : Cardinality(r) <= MaxRefs}] :
           declared \in SUBSET LayerNames}

\* a record of every referenced name, with or without the prefix
PrevLayersNeededWithAnyRef(ref) == prev_layers_needed \cup {ref.name}

\* get_templated_layer: if name.startswith("prev:"): prev_layers_needed.add
PrevLayersNeededWith(ref) ==
  IF ref.prev THEN prev_layers_needed \cup {ref.name} ELSE prev_layers_needed

\* get_templated_layer(name) for the reference ref, called with the stack
\* ctx; pc_ok is where the construction stands if the call raises nothing.
\* TFNetwork._construct_layer raises LayerNotFound for a name that is not
\* declared.
GetTemplatedLayer(ref, ctx, pc_ok) ==
  LET name == ref.name
      with_dep == IF ctx = <<>> THEN dependencies
                  ELSE [dependencies EXCEPT ![ctx[Len(ctx)].layer] = @ \cup {name}]
  IN  /\ prev_layers_needed' = PrevLayersNeededWith(ref)
      /\ IF name \in layer_data_templates
         THEN /\ construct_ctx' = ctx
              /\ dependencies' = with_dep
              /\ layer_data_templates' = layer_data_templates
              /\ template_output' = template_output
              /\ construct_pc' = IF ctx = <<>> THEN "ERROR" ELSE pc_ok
              /\ construct_error' = IF ctx = <<>> THEN "IndexError" ELSE NoError
         ELSE /\ layer_data_templates' = layer_data_templates \cup {name}
              /\ dependencies' =
                   [n \in layer_data_templates \cup {name} |->
                      IF n = name THEN {} ELSE with_dep[n]]
              /\ template_output' =
                   [n \in layer_data_templates \cup {name} |->
                      IF n = name THEN DummyData ELSE template_output[n]]
              /\ IF name \in DOMAIN net_dict
                 THEN /\ construct_ctx' =
                           Append(ctx, [layer |-> name,
                                        todo |-> ConstructLayerRefs(net_dict, name)])
                      /\ construct_pc' = pc_ok
                      /\ construct_error' = NoError
                 ELSE /\ construct_ctx' = Append(ctx, [layer |-> name, todo |-> {}])
                      /\ construct_pc' = "ERROR"
                      /\ construct_error' = "LayerNotFound"

\* a construction that does not ask for "output"
ConstructOutputSkipped ==
  /\ construct_pc = "START"
  /\ construct_pc' = "AFTER_OUTPUT"
  /\ UNCHANGED <<cfgVars, pc, loopVars, seq_len, resolveVars, resultVars,
                 decide_output, net_dict, layer_data_templates, dependencies,
                 template_output, prev_layers_needed, construct_ctx,
                 construct_error, hoistVars>>

\* _construct_template: get_templated_layer("output")
ConstructOutput ==
  /\ construct_pc = "START"
  /\ GetTemplatedLayer([name |-> "output", prev |-> FALSE], <<>>, "OUTPUT")
  /\ UNCHANGED <<cfgVars, pc, loopVars, seq_len, resolveVars, resultVars,
                 decide_output, net_dict, hoistVars>>

\* the construction of the layer on top of the stack asks get_layer for one
\* of the layers its declaration names
ConstructGetLayer ==
  /\ construct_pc \in {"OUTPUT", "END"}
  /\ construct_ctx # <<>>
  /\ \E ref \in construct_ctx[Len(construct_ctx)].todo :
       GetTemplatedLayer(
         ref,
         [construct_ctx EXCEPT ![Len(construct_ctx)].todo = @ \ {ref}],
         construct_pc)
  /\ UNCHANGED <<cfgVars, pc, loopVars, seq_len, resolveVars, resultVars,
                 decide_output, net_dict, hoistVars>>

\* the construction of the layer on top of the stack has all it asked for:
\* add_templated_layer, and get_templated_layer pops the stack and returns
ConstructAddLayer ==
  /\ construct_pc \in {"OUTPUT", "END"}
  /\ construct_ctx # <<>>
  /\ construct_ctx[Len(construct_ctx)].todo = {}
  /\ template_output' =
       [template_output EXCEPT ![construct_ctx[Len(construct_ctx)].layer] =
          TemplateData(construct_ctx[Len(construct_ctx)].layer)]
  /\ construct_ctx' = Front(construct_ctx)
  /\ construct_pc' = IF Len(construct_ctx) > 1 THEN construct_pc
                     ELSE IF construct_pc = "OUTPUT" THEN "AFTER_OUTPUT" ELSE "DONE"
  /\ UNCHANGED <<cfgVars, pc, loopVars, seq_len, resolveVars, resultVars,
                 decide_output, net_dict, layer_data_templates, dependencies,
                 prev_layers_needed, construct_error, hoistVars>>

\* _construct_template: if "end" in self.net_dict: get_templated_layer("end")
ConstructEnd ==
  /\ construct_pc = "AFTER_OUTPUT"
  /\ IF "end" \in DOMAIN net_dict
     THEN GetTemplatedLayer([name |-> "end", prev |-> FALSE], <<>>, "END")
     ELSE /\ construct_pc' = "DONE"
          /\ UNCHANGED <<layer_data_templates, dependencies, template_output,
                         prev_layers_needed, construct_ctx, construct_error>>
  /\ UNCHANGED <<cfgVars, pc, loopVars, seq_len, resolveVars, resultVars,
                 decide_output, net_dict, hoistVars>>

\* ---------------------------------------------------------------- hoisting
\* _TemplateLayer.get_dep_layers of a template of layer_data_templates
GetDepLayers(layer) == dependencies[layer]

\* the first layer of the list q that is in the set found, or NoLayer
FindFirst(q, found) ==
  IF \E j \in 1..Len(q) : q[j] \in found
  THEN q[CHOOSE j \in 1..Len(q) :
           q[j] \in found /\ \A k \in 1..(j - 1) : q[k] \notin found]
  ELSE NoLayer

\* a test that forgets the layers that use layer.output
OutputCanMoveOutIgnoresDeps(layer, in_loop) ==
  layer \notin prev_layers_needed

\* output_can_move_out(layer)
OutputCanMoveOut(layer, in_loop) ==
  /\ layer \notin prev_layers_needed
  /\ \A other_layer \in SeqToSet(in_loop) : layer \notin GetDepLayers(other_layer)

\* find_output_layer_to_move_out()
FindOutputLayerToMoveOut(in_loop, needed) ==
  FindFirst(in_loop,
            {layer \in SeqToSet(in_loop) :
               layer \in SeqToSet(needed) /\ OutputCanMoveOut(layer, in_loop)})

\* a test that lets every layer be computed before the loop
InputCanMoveOutAlways(layer, in_loop) == layer \in SeqToSet(in_loop)

\* a test that is content with one layer of the loop that is not a dependency
InputCanMoveOutSomeOther(layer, in_loop) ==
  \E other_layer \in SeqToSet(in_loop) : other_layer \notin GetDepLayers(layer)

\* input_can_move_out(layer)
InputCanMoveOut(layer, in_loop) ==
  \A other_layer \in SeqToSet(in_loop) : other_layer \notin GetDepLayers(layer)

\* a search that never finds a layer to compute before the loop
FindInputLayerToMoveOutNone(in_loop) == NoLayer

\* find_input_layer_to_move_out()
FindInputLayerToMoveOut(in_loop) ==
  FindFirst(in_loop,
            {layer \in SeqToSet(in_loop) : InputCanMoveOut(layer, in_loop)})

\* a move that leaves the layer in the loop as well
OutputMoveOutKeepsLayer(layer) ==
  /\ needed_outputs' = Remove(needed_outputs, layer)
  /\ layers_in_loop' = layers_in_loop
  /\ output_layers_moved_out' = Append(output_layers_moved_out, layer)

\* output_move_out(layer)
OutputMoveOut(layer) ==
  /\ needed_outputs' = Remove(needed_outputs, layer)
  /\ layers_in_loop' = Remove(layers_in_loop, layer)
  /\ output_layers_moved_out' = Append(output_layers_moved_out, layer)

\* a move that leaves the layer in the loop as well
InputMoveOutKeepsLayer(layer) ==
  /\ needed_outputs' = IF layer \in SeqToSet(needed_outputs)
                       THEN Remove(needed_outputs, layer) ELSE needed_outputs
  /\ layers_in_loop' = layers_in_loop
  /\ input_layers_moved_out' = Append(input_layers_moved_out, layer)

\* input_move_out(layer)
InputMoveOut(layer) ==
  /\ needed_outputs' = IF layer \in SeqToSet(needed_outputs)
                       THEN Remove(needed_outputs, layer) ELSE needed_outputs
  /\ layers_in_loop' = Remove(layers_in_loop, layer)
  /\ input_layers_moved_out' = Append(input_layers_moved_out, layer)

\* a first half that takes the template of the moved layer out of the graph
HoistOutputStepDropsTemplate ==
  /\ hoist_pc = "OUTPUT"
  /\ LET layer == FindOutputLayerToMoveOut(layers_in_loop, needed_outputs)
     IN  /\ output_layer' = layer
         /\ layer_data_templates' = layer_data_templates \ {layer}
         /\ IF layer # NoLayer
            THEN OutputMoveOut(layer)
            ELSE UNCHANGED <<needed_outputs, layers_in_loop, output_layers_moved_out>>
  /\ hoist_pc' = "INPUT"
  /\ hoist_round' = hoist_round + 1
  /\ UNCHANGED <<cfgVars, pc, loopVars, seq_len, resolveVars, resultVars,
                 decide_output, net_dict, dependencies, template_output,
                 prev_layers_needed, construct_pc, construct_ctx,
                 construct_error, input_layers_moved_out>>

\* first half of a round of the while-loop: the output layer
HoistOutputStep ==
  /\ hoist_pc = "OUTPUT"
  /\ LET layer == FindOutputLayerToMoveOut(layers_in_loop, needed_outputs)
     IN  /\ output_layer' = layer
         /\ IF layer # NoLayer
            THEN OutputMoveOut(layer)
            ELSE UNCHANGED <<needed_outputs, layers_in_loop, output_layers_moved_out>>
  /\ hoist_pc' = "INPUT"
  /\ hoist_round' = hoist_round + 1
  /\ UNCHANGED <<cfgVars, pc, loopVars, seq_len, resolveVars, resultVars,
                 decide_output, templateVars, input_layers_moved_out>>

\* second half of a round: the input layer, and the test that ends the loop
HoistInputStep ==
  /\ hoist_pc = "INPUT"
  /\ LET input_layer == FindInputLayerToMoveOut(layers_in_loop)
     IN  /\ IF input_layer # NoLayer
            THEN InputMoveOut(input_layer)
            ELSE UNCHANGED <<needed_outputs, layers_in_loop, input_layers_moved_out>>
         /\ hoist_pc' = IF output_layer = NoLayer /\ input_layer = NoLayer
                        THEN "END" ELSE "OUTPUT"
  /\ UNCHANGED <<cfgVars, pc, loopVars, seq_len, resolveVars, resultVars,
                 decide_output, templateVars, output_layers_moved_out, output_layer,
                 hoist_round>>

\* move_outside_loop has not been called
HoistIdle ==
  /\ hoist_pc = "IDLE"
  /\ hoist_round = 0
  /\ layers_in_loop = <<>>
  /\ input_layers_moved_out = <<>>
  /\ output_layers_moved_out = <<>>
  /\ needed_outputs = <<>>
  /\ output_layer = NoLayer

\* the loop variables and the results before the loop is built
LoopNotBuilt ==
  /\ batch_dim = 1
  /\ collected_choices = <<>>
  /\ output_beam_size = 0
  /\ layer_names_with_losses = {}
  /\ loss_scale = <<>>
  /\ loss_declared = {}
  /\ i = 0
  /\ net_vars = [outputs_flat |-> <<>>, extra_flat |-> <<>>]
  /\ acc_tas = <<>>
  /\ seq_len_info = NoSeqLenInfo
  /\ step_log = <<>>
  /\ rs_i = 0
  /\ choice_beams = None
  /\ new_acc_output_ta = None
  /\ size_placeholder = None
  /\ output = None
  /\ sub_loss = NoLoss
  /\ beam_scores = None
  /\ decide_output = NoDecision
  /\ build_error = NoError
  /\ net_layers = {}

\* the unit is a subnetwork, and nobody has asked for its final state
NoStateRequest ==
  /\ cell_unit = "subnet"
  /\ rec_input = None
  /\ last_hidden_state = None
  /\ hidden_state_call = NoCall

\* the rec layer is not being built
DriverIdle ==
  /\ LoopNotBuilt
  /\ NoStateRequest
  /\ have_known_seq_len = TRUE
  /\ max_seq_len = 0
  /\ pc = "IDLE"
  /\ seq_len = None
  /\ self_max_seq_len = 0
  /\ extern_data = <<>>
  /\ used_data_keys = {}

\* ---------------------------------------------------------------- Init
\* _get_output_subnet_unit: the templates with a "loss" in their declaration
LayerNamesWithLosses == layer_data_templates \cap loss_declared

\* what the declaration of "end" refers to: nothing of the subnetwork, or its
\* own previous output
EndRefs ==
  IF have_known_seq_len THEN {{}}
  ELSE {{}, {[name |-> "end", prev |-> TRUE]}}

\* the variables of the loop when tf.while_loop is entered for the
\* constructed cell
LoopEntered ==
  /\ template_output =
       PrevFramesCopied([n \in layer_data_templates |-> TemplateData(n)])
  /\ layer_names_with_losses = LayerNamesWithLosses
  /\ loss_scale \in [layer_names_with_losses -> 1..MaxLossScale]
  /\ self_max_seq_len = IF have_known_seq_len THEN 0 ELSE max_seq_len
  /\ extern_data = [k \in {"classes", "data"} |-> k = "classes" /\ Eval]
  /\ used_data_keys = IF Eval THEN {"classes"} ELSE {}
  /\ build_error = NoError
  /\ net_layers = ConstructedLayers
  /\ pc = "RUNNING"
  /\ i = 0
  /\ net_vars = GetInitLoopVars
  /\ acc_tas = [name \in AccNames |->
                  TANew(IF have_known_seq_len THEN max_seq_len ELSE 0)]
  /\ seq_len_info = IF have_known_seq_len THEN NoSeqLenInfo
                    ELSE [end_flag |-> ConstantWithShape(FALSE, Slots),
                          dyn_seq_len |-> ConstantWithShape(0, Slots),
                          present |-> TRUE]
  /\ step_log = <<>>
  /\ rs_i = 0
  /\ choice_beams = None
  /\ new_acc_output_ta = None
  /\ size_placeholder = None
  /\ output = None
  /\ sub_loss = NoLoss
  /\ beam_scores = None
  /\ decide_output = NoDecision
  /\ HoistIdle
  /\ NoStateRequest

\* the state when tf.while_loop is entered
Init ==
  /\ \E search \in BOOLEAN :
       /\ collected_choices = IF search THEN <<"output">> ELSE <<>>
       /\ batch_dim \in 1..(IF search THEN MaxSearchBatch ELSE MaxSlots)
       /\ output_beam_size \in
            IF search THEN {k \in 1..MaxSlots : batch_dim * k <= MaxSlots}
            ELSE {0}
  /\ have_known_seq_len \in BOOLEAN
  /\ IF have_known_seq_len
     THEN \E lens \in [1..batch_dim -> 0..MaxLen] :
            /\ seq_len = IF Search THEN TileTransposed(lens, output_beam_size)
                         ELSE lens
            /\ max_seq_len = SeqMax(lens)
     ELSE /\ seq_len = None
          /\ max_seq_len \in 1..MaxLen
  /\ loss_declared \in
       IF have_known_seq_len /\ ~Search THEN SUBSET {"a", "output"} ELSE {{}}
  /\ \E end_refs \in EndRefs :
       CellConstructed(
         [n \in {"output"} \cup (IF Search THEN {"s"} ELSE {})
                 \cup (IF have_known_seq_len THEN {} ELSE {"end"})
                 \cup (loss_declared \cap {"a"}) |->
            CASE n = "output" -> IF Search THEN {[name |-> "s", prev |-> FALSE]}
                                 ELSE {[name |-> "output", prev |-> TRUE]}
              [] n = "s" -> {[name |-> "output", prev |-> TRUE]}
              [] n = "end" -> end_refs
              [] n = "a" -> {}])
  /\ LoopEntered

\* the runs checked for termination
InitFair == Init /\ output_beam_size <= MaxFairBeam

Next == Body \/ LoopExit \/ SearchResolveBody \/ SearchResolveExit \/ Decide

Spec == Init /\ [][Next]_vars

\* the loop runs to completion: tf.while_loop iterates until cond is false,
\* and so does the search-resolve loop
FairSpec == InitFair /\ [][Next]_vars /\ WF_vars(Next)

\* the declarations of the runs that collect losses: "output" from its own
\* previous value, with or without a loss; "a", read by "output" in the same
\* step, when "a" carries a loss; "end" when the length is not known
LossNetDict(losses, with_end) ==
  [n \in {"output"} \cup (losses \cap {"a"})
          \cup (IF with_end THEN {"end"} ELSE {}) |->
     CASE n = "output" -> {[name |-> "output", prev |-> TRUE]}
                          \cup {[name |-> m, prev |-> FALSE] : m \in losses \cap {"a"}}
       [] n = "a" -> {}
       [] n = "end" -> {}]

\* tf.while_loop is entered with eval_flag set and without search; the
\* length is known from the target or not known at all
LossInit ==
  /\ collected_choices = <<>>
  /\ output_beam_size = 0
  /\ loss_declared \in (SUBSET {"a", "output"}) \ {{}}
  /\ batch_dim \in {n \in 1..MaxSlots : n * Cardinality(loss_declared) <= MaxSlots}
  /\ have_known_seq_len \in BOOLEAN
  /\ IF have_known_seq_len
     THEN \E lens \in [1..batch_dim -> 0..MaxLen] :
            seq_len = lens /\ max_seq_len = SeqMax(lens)
     ELSE seq_len = None /\ max_seq_len \in 1..MaxLen
  /\ CellConstructed(LossNetDict(loss_declared, ~have_known_seq_len))
  /\ LoopEntered

LossNext == Body \/ LoopExit

LossSpec == LossInit /\ [][LossNext]_vars

\* move_outside_loop is entered for a constructed cell: the state before the
\* first round of its while-loop
HoistInit ==
  /\ DriverIdle
  /\ \E nd \in NetDicts : CellConstructed(nd)
  /\ TemplatesFresh
  /\ hoist_pc = "OUTPUT"
  /\ hoist_round = 0
  /\ layers_in_loop = Sorted(layer_data_templates)
  /\ input_layers_moved_out = <<>>
  /\ output_layers_moved_out = <<>>
  /\ needed_outputs = <<"output">>
  /\ output_layer = NoLayer

HoistNext == HoistOutputStep \/ HoistInputStep

HoistSpec == HoistInit /\ [][HoistNext]_vars

\* the while-loop of move_outside_loop goes on until it breaks
HoistFairSpec == HoistInit /\ [][HoistNext]_vars /\ WF_vars(HoistNext)

\* _SubnetworkRecCell.__init__ before _construct_template is called
ConstructInit ==
  /\ DriverIdle
  /\ HoistIdle
  /\ net_dict \in AllNetDicts
  /\ layer_data_templates = {}
  /\ dependencies = <<>>
  /\ template_output = <<>>
  /\ prev_layers_needed = {}
  /\ construct_pc = "START"
  /\ construct_ctx = <<>>
  /\ construct_error = NoError

ConstructNext ==
  ConstructOutput \/ ConstructGetLayer \/ ConstructAddLayer \/ ConstructEnd

ConstructSpec == ConstructInit /\ [][ConstructNext]_vars

\* ---------------------------------------------------------------- building
\* what the building of the loop leaves alone
buildFixed == <<batch_dim, collected_choices, output_beam_size,
                layer_names_with_losses, loss_scale, loss_declared,
                self_max_seq_len, extern_data, used_data_keys, i, step_log,
                seq_len, resolveVars, resultVars, decide_output, net_dict,
                layer_data_templates, dependencies, prev_layers_needed,
                construct_pc, construct_ctx, construct_error, hoistVars,
                stateVars>>

\* _get_output_subnet_unit: max_seq_len is asserted when seq_len is None
MaxSeqLenRequired == seq_len = None

\* a building that never asks for the "end" layer
EndLayerRequiredNever == FALSE

\* _get_output_subnet_unit: if not have_known_seq_len: assert "end" in ...
EndLayerRequired == ~have_known_seq_len

\* a test that asks for the value of every data key, used or not
MissingDataKeysOfAll == {k \in DOMAIN extern_data : ~extern_data[k]}

\* _construct: the used data keys whose placeholder is None
MissingDataKeys ==
  {k \in DOMAIN extern_data : k \in used_data_keys /\ ~extern_data[k]}

\* _get_output_subnet_unit up to the choice of max_seq_len
BuildSeqLen ==
  /\ pc = "BUILD"
  /\ IF MaxSeqLenRequired /\ self_max_seq_len = 0
     THEN /\ pc' = "ERROR"
          /\ build_error' = "AssertionError: must specify max_seq_len in rec layer"
          /\ UNCHANGED <<have_known_seq_len, max_seq_len>>
     ELSE /\ pc' = "BUILD_ACC"
          /\ have_known_seq_len' = (seq_len # None)
          /\ max_seq_len' = IF seq_len # None THEN SeqMax(seq_len)
                            ELSE self_max_seq_len
          /\ UNCHANGED build_error
  /\ UNCHANGED <<buildFixed, net_vars, acc_tas, seq_len_info, net_layers,
                 template_output>>

\* _get_output_subnet_unit from get_init_loop_vars to the accumulators
BuildAccumulators ==
  /\ pc = "BUILD_ACC"
  /\ IF EndLayerRequired /\ "end" \notin layer_data_templates
     THEN /\ pc' = "ERROR"
          /\ build_error' = "AssertionError: You need to have an 'end' layer"
          /\ UNCHANGED <<net_vars, acc_tas>>
     ELSE /\ pc' = "BUILD_LOOP"
          /\ net_vars' = GetInitLoopVars
          /\ acc_tas' = [name \in AccNames |->
                           TANew(IF have_known_seq_len THEN max_seq_len ELSE 0)]
          /\ UNCHANGED build_error
  /\ UNCHANGED <<buildFixed, have_known_seq_len, max_seq_len, seq_len_info,
                 net_layers, template_output>>

\* tf.while_loop builds the body: get_next_loop_vars calls _construct, which
\* looks at the data keys before it constructs a layer
BuildBody ==
  /\ pc = "BUILD_LOOP"
  /\ IF MissingDataKeys # {}
     THEN /\ pc' = "ERROR"
          /\ build_error' = "Exception: subnet data key is not set"
          /\ UNCHANGED <<seq_len_info, net_layers, template_output>>
     ELSE /\ pc' = "RUNNING"
          /\ seq_len_info' = IF have_known_seq_len THEN NoSeqLenInfo
                             ELSE [end_flag |-> ConstantWithShape(FALSE, Slots),
                                   dyn_seq_len |-> ConstantWithShape(0, Slots),
                                   present |-> TRUE]
          /\ net_layers' = ConstructedLayers
          /\ template_output' = PrevFramesCopied(template_output)
          /\ UNCHANGED build_error
  /\ UNCHANGED <<buildFixed, have_known_seq_len, max_seq_len, net_vars, acc_tas>>

\* the declarations of the cells that are built: "output", with or without
\* "end", at most one reference per layer
BuildNetDicts ==
  {nd \in NetDicts : /\ DOMAIN nd \subseteq {"output", "end"}
                     /\ \A n \in DOMAIN nd : Cardinality(nd[n]) <= 1}

\* _get_output_subnet_unit is entered for a constructed cell: the rec layer
\* has an input or not, a length from its target or not, a target to read
\* the classes from or not
BuildSetup ==
  /\ LoopNotBuilt
  /\ HoistIdle
  /\ \E nd \in BuildNetDicts : CellConstructed(nd)
  /\ TemplatesFresh
  /\ \E has_input \in BOOLEAN, has_size \in BOOLEAN, has_y_ta \in BOOLEAN :
       /\ seq_len \in IF has_input \/ has_size
                       THEN [1..batch_dim -> 0..MaxLen] ELSE {None}
       /\ extern_data =
            [k \in (IF has_input THEN {"source"} ELSE {}) \cup {"classes", "data"} |->
               k = "source" \/ (k = "classes" /\ has_y_ta)]
  /\ used_data_keys \in SUBSET DOMAIN extern_data
  /\ self_max_seq_len \in 0..MaxLen
  /\ have_known_seq_len = FALSE
  /\ max_seq_len = 0

BuildInit ==
  /\ BuildSetup
  /\ NoStateRequest
  /\ pc = "BUILD"

BuildNext == BuildSeqLen \/ BuildAccumulators \/ BuildBody

BuildSpec == BuildInit /\ [][BuildNext]_vars

\* ---------------------------------------------------------------- units
\* the kinds of self.cell that RecLayer.__init__ tells apart
Units == {"rnn_cell", "fused_rnn_cell", "cudnn", "native_rec_op", "subnet"}

\* tf.reverse_sequence(x, seq_lengths=lens, batch_dim=1, seq_dim=0)
ReverseSequence(x, lens) ==
  [t \in 1..Len(x) |-> [b \in 1..Len(lens) |->
     IF t <= lens[b] THEN x[lens[b] - t + 1][b] ELSE x[t][b]]]

\* TFUtil.directed(x, direction) of a time-major tensor: x[::-1] backwards
Directed(x, direction) ==
  IF direction = -1 THEN [t \in 1..Len(x) |-> x[Len(x) - t + 1]] ELSE x

\* TFUtil.sequence_mask_time_major(lens, maxlen): (time, batch)
SequenceMaskTimeMajor(lens, maxlen) ==
  [t \in 1..maxlen |-> [b \in 1..Len(lens) |-> SequenceMask(lens, t - 1, b)]]

RECURSIVE RunCell(_, _, _, _)
\* the cell applied frame by frame from frame t on; the state of a row is
\* left as it is in the frames where its index is false
RunCell(x, index, t, state) ==
  IF t > Len(x) THEN state
  ELSE LET new == RnnCellState(x[t], state)
       IN  RunCell(x, index, t + 1,
                   [b \in 1..Len(state) |->
                      IF index[t][b] THEN new[b] ELSE state[b]])

\* the state the recurrence starts from: self._initial_state, or zeros
StartState(inp) ==
  IF inp.initial_state = None THEN InitialRnnState(Len(inp.seq_len))
  ELSE inp.initial_state

\* the inputs of a rec layer with a unit that reads a whole sequence
RecInputs ==
  UNION {[x : [1..SeqMax(lens) -> [1..Len(lens) -> Labels]],
          seq_len : {lens},
          direction : {1, -1},
          initial_state : {None, [b \in 1..Len(lens) |-> <<NumValues>>]}] :
           lens \in UNION {[1..n -> 0..MaxLen] : n \in 1..MaxSlots}}

\* what RecLayer.__init__ leaves alone when the unit is not a subnetwork
unitFixed == <<batch_dim, collected_choices, output_beam_size,
               have_known_seq_len, max_seq_len, layer_names_with_losses,
               loss_scale, loss_declared, extern_data, used_data_keys,
               net_layers, self_max_seq_len, cell_unit, rec_input,
               hidden_state_call, loopVars, seq_len, resolveVars, resultVars,
               decide_output, templateVars, hoistVars>>

\* the asserts every _get_output_* of a unit that is no subnetwork begins with
UnitAsserts == self_max_seq_len = 0 /\ rec_input # None

\* _get_output_cell(cell): rnn.dynamic_rnn for an RNNCell, cell(...) for a
\* FusedRNNCell; both hand back (y, final_state)
GetOutputCell ==
  /\ pc = "INIT"
  /\ cell_unit \in {"rnn_cell", "fused_rnn_cell"}
  /\ IF UnitAsserts
     THEN LET x == IF rec_input.direction = -1
                   THEN ReverseSequence(rec_input.x, rec_input.seq_len)
                   ELSE rec_input.x
              index == SequenceMaskTimeMajor(rec_input.seq_len, Len(x))
          IN  /\ last_hidden_state' = RunCell(x, index, 1, StartState(rec_input))
              /\ pc' = "DONE"
              /\ UNCHANGED build_error
     ELSE /\ pc' = "ERROR"
          /\ build_error' = "AssertionError"
          /\ UNCHANGED last_hidden_state
  /\ UNCHANGED unitFixed

\* _get_output_cudnn(cell): y, _, _ = cell(...)
GetOutputCudnn ==
  /\ pc = "INIT"
  /\ cell_unit = "cudnn"
  /\ IF UnitAsserts
     THEN pc' = "DONE" /\ UNCHANGED build_error
     ELSE pc' = "ERROR" /\ build_error' = "AssertionError"
  /\ UNCHANGED <<unitFixed, last_hidden_state>>

\* _get_output_native_rec_op(cell): y, final_state = cell(inputs=x,
\* index=index, initial_state=...) on the directed input
GetOutputNativeRecOp ==
  /\ pc = "INIT"
  /\ cell_unit = "native_rec_op"
  /\ IF UnitAsserts
     THEN LET index == SequenceMaskTimeMajor(rec_input.seq_len, Len(rec_input.x))
          IN  /\ last_hidden_state' =
                   RunCell(Directed(rec_input.x, rec_input.direction),
                           Directed(index, rec_input.direction), 1,
                           StartState(rec_input))
              /\ pc' = "DONE"
              /\ UNCHANGED build_error
     ELSE /\ pc' = "ERROR"
          /\ build_error' = "AssertionError"
          /\ UNCHANGED last_hidden_state
  /\ UNCHANGED unitFixed

\* RecLayer.__init__: y = self._get_output_subnet_unit(self.cell) is entered
GetOutputSubnetUnit ==
  /\ pc = "INIT"
  /\ cell_unit = "subnet"
  /\ pc' = "BUILD"
  /\ UNCHANGED <<cfgVars, loopVars, seq_len, resolveVars, resultVars,
                 decide_output, templateVars, hoistVars>>

\* a test that takes every recorded value for a state
LastHiddenStateMissingNever == FALSE

\* get_last_hidden_state: self._last_hidden_state is None
LastHiddenStateMissing == last_hidden_state = None

\* RecLayer.get_last_hidden_state() on the layer that has been built
GetLastHiddenState ==
  /\ pc = "DONE"
  /\ ~hidden_state_call.called
  /\ hidden_state_call' =
       IF LastHiddenStateMissing
       THEN [called |-> TRUE,
             error |-> "AssertionError: last-hidden-state not implemented",
             value |-> None]
       ELSE [called |-> TRUE, error |-> NoError, value |-> last_hidden_state]
  /\ UNCHANGED <<batch_dim, collected_choices, output_beam_size,
                 have_known_seq_len, max_seq_len, layer_names_with_losses,
                 loss_scale, loss_declared, buildVars, cell_unit, rec_input,
                 last_hidden_state, pc, loopVars, seq_len, resolveVars,
                 resultVars, decide_output, templateVars, hoistVars>>

\* a rec layer without a subnetwork has no cell of templates
NoCell ==
  /\ net_dict = <<>>
  /\ layer_data_templates = {}
  /\ dependencies = <<>>
  /\ template_output = <<>>
  /\ prev_layers_needed = {}
  /\ construct_pc = "DONE"
  /\ construct_ctx = <<>>
  /\ construct_error = NoError

\* RecLayer.__init__ has chosen self.cell and is about to build the output
UnitInit ==
  /\ cell_unit \in Units
  /\ last_hidden_state = None
  /\ hidden_state_call = NoCall
  /\ pc = "INIT"
  /\ IF cell_unit = "subnet"
     THEN BuildSetup /\ rec_input = None
     ELSE /\ LoopNotBuilt
          /\ HoistIdle
          /\ NoCell
          /\ rec_input \in RecInputs \cup {None}
          /\ self_max_seq_len \in 0..1
          /\ have_known_seq_len = TRUE
          /\ max_seq_len = 0
          /\ seq_len = None
          /\ extern_data = <<>>
          /\ used_data_keys = {}

UnitNext ==
  \/ GetOutputCell \/ GetOutputCudnn \/ GetOutputNativeRecOp
  \/ GetOutputSubnetUnit \/ BuildNext \/ Body \/ LoopExit
  \/ GetLastHiddenState

UnitSpec == UnitInit /\ [][UnitNext]_vars

\* ---------------------------------------------------------------- claims
\* the driver is DONE once the while-loop over the steps has been left
DriverDone == pc # "RUNNING"
\* number of steps the loop has executed
Steps == Len(step_log)
\* the end signal of slot s fired in the step with index t
EndFired(s, t) == step_log[t + 1].end[s]
\* the end signal of slot s fired in some executed step
EverEnded(s) == \E t \in 0..(Steps - 1) : EndFired(s, t)
\* index of the first step in which the end signal of slot s fired
FirstEnd(s) ==
  CHOOSE t \in 0..(Steps - 1) :
    EndFired(s, t) /\ \A u \in 0..(t - 1) : ~EndFired(s, u)

\* C1: with sequence lengths known in advance (maximum length L, no dynamic
\* end signal) the loop executes exactly L steps and every accumulated buffer
\* has length exactly L after the loop, for every L >= 0.
C1_KnownLengthExactSteps ==
  (have_known_seq_len /\ DriverDone) =>
     /\ i = max_seq_len
     /\ Steps = max_seq_len
     /\ \A name \in AccNames :
          /\ TASize(acc_tas[name]) = max_seq_len
          /\ TAWritten(acc_tas[name]) = 0..(max_seq_len - 1)

C1_Witness ==
  /\ have_known_seq_len /\ pc = "DONE" /\ max_seq_len = MaxLen
  /\ Steps = MaxLen /\ batch_dim > 1 /\ \E s \in 1..Slots : seq_len[s] < MaxLen

\* C2: the driver executes another step at step index i if and only if
\* i < maximum length and (no dynamic end signal is configured or at least one
\* example's end flag is still false); so it stops below the maximum length
\* only when every example's end flag is set, and never stops early when no
\* end signal is configured.
C2_StepIffCond ==
  [][ /\ pc = "RUNNING" =>
           ( (pc' = "RUNNING" /\ i' = i + 1 /\ Len(step_log') = Steps + 1)
             <=> ( /\ i < max_seq_len
                   /\ \/ have_known_seq_len
                      \/ \E s \in 1..Slots : ~seq_len_info.end_flag[s] ) )
      /\ (pc' # "RUNNING" /\ i' < max_seq_len) =>
           ( /\ ~have_known_seq_len
             /\ \A s \in 1..Slots : seq_len_info'.end_flag[s] )
    ]_vars

C2_Witness ==
  /\ DriverDone /\ ~have_known_seq_len /\ i < max_seq_len /\ i > 0
  /\ batch_dim > 1

\* C3: from step index 0 the driver always reaches DONE: the step index
\* increases by exactly 1 per executed step, at most maximum-length steps are
\* executed whatever the end signals are, and no step is executed after DONE.
C3_DriverTerminates ==
  /\ <>DriverDone
  /\ [][ /\ step_log' # step_log =>
              (pc = "RUNNING" /\ i' = i + 1 /\ Len(step_log') = Steps + 1)
         /\ i' # i => step_log' # step_log
         /\ Len(step_log') <= max_seq_len /\ i' <= max_seq_len
         /\ DriverDone => (DriverDone' /\ i' = i /\ step_log' = step_log)
       ]_vars

C3_Witness ==
  /\ DriverDone /\ ~have_known_seq_len /\ i = max_seq_len /\ i = MaxLen
  /\ \E s \in 1..Slots : ~seq_len_info.end_flag[s]

\* C4: with a dynamic end signal and batch size 1, the output length recorded
\* after the loop equals the 0-based step index at which the end signal first
\* fires.
C4_LengthIsFirstEndIndex ==
  (DriverDone /\ ~have_known_seq_len /\ batch_dim = 1) =>
     \A s \in 1..Slots :
        EverEnded(s) => size_placeholder[s] = FirstEnd(s)

C4_Witness ==
  /\ pc = "DONE" /\ ~have_known_seq_len /\ batch_dim = 1 /\ ~Search
  /\ EverEnded(1) /\ FirstEnd(1) = 1 /\ size_placeholder[1] = 1

\* number of loop iterations taken for slot s: up to and including the one
\* that first observes its end signal, or all of them when it never fires
ItersFor(s) == IF EverEnded(s) THEN FirstEnd(s) + 1 ELSE Steps

\* C5 as stated: in every run where the sequence length is not known in
\* advance, for every example the recorded length is one less than the number
\* of loop iterations taken for that example.
C5_Original ==
  (DriverDone /\ ~have_known_seq_len) =>
     \A s \in 1..Slots : size_placeholder[s] = ItersFor(s) - 1

\* C5 (amended): when the sequence length is not known in advance, for every
\* example whose end signal fires during the loop the recorded length is one
\* less than the number of loop iterations taken for that example (the
\* iteration that first observes the end signal is executed and written to the
\* buffers but not counted); for an example whose end signal never fires the
\* loop stops at the maximum length and the recorded length equals the number
\* of iterations.
C5_LengthOneLessWhenEnded ==
  (DriverDone /\ ~have_known_seq_len) =>
     \A s \in 1..Slots :
        /\ EverEnded(s) =>
             /\ size_placeholder[s] = ItersFor(s) - 1
             /\ \A name \in AccNames : FirstEnd(s) \in TAWritten(acc_tas[name])
        /\ ~EverEnded(s) =>
             /\ Steps = max_seq_len
             /\ size_placeholder[s] = ItersFor(s)

C5_Witness ==
  /\ pc = "DONE" /\ ~have_known_seq_len /\ batch_dim = 2 /\ Steps = 2
  /\ EverEnded(1) /\ FirstEnd(1) = 0 /\ ~EverEnded(2)

\* C6: when the length is not known in advance, the output sequence returned
\* by the layer is the first M steps of the accumulated output buffer, where M
\* is the maximum recorded length over all examples (batch-wide, not per
\* example); the returned length never exceeds M nor the number of executed
\* steps.
C6_OutputIsFirstMSteps ==
  (pc = "DONE" /\ ~have_known_seq_len) =>
     LET M == SeqMax(size_placeholder)
         buf == TAStack(acc_tas["output_output"])
     IN  /\ Len(output) = M
         /\ Len(output) <= Steps
         /\ \A j \in 1..M : output[j] = buf[j]
         /\ ~Search =>
              \A j \in 1..M : output[j] = step_log[j].produced["output_output"]

C6_Witness ==
  /\ pc = "DONE" /\ ~have_known_seq_len /\ batch_dim = 2
  /\ Len(output) = 1 /\ Steps = 2
  /\ size_placeholder[1] # size_placeholder[2]

\* C7: at every point of the loop, after t executed steps every accumulated
\* buffer (the output, each per-layer loss and error, each choice point's
\* parent indices) holds exactly t entries and entry j is the value produced
\* by step j; each step writes each buffer exactly once, at its own step index.
C7_BuffersHoldSteps ==
  /\ Steps = i
  /\ \A j \in 0..(i - 1) : step_log[j + 1].i = j
  /\ \A name \in AccNames :
       (pc = "DONE" /\ Search /\ name = "output_output")
       \/ /\ TAWritten(acc_tas[name]) = 0..(i - 1)
          /\ \A j \in 0..(i - 1) :
               TARead(acc_tas[name], j) = step_log[j + 1].produced[name]

C7_Witness ==
  /\ pc = "RUNNING" /\ i = 2 /\ Eval
  /\ TARead(acc_tas["loss_output"], 0) # TARead(acc_tas["loss_output"], 1)
  /\ TARead(acc_tas["loss_output"], 1) # TARead(acc_tas["error_output"], 1)

\* the candidate score of flattened index f (0-based) of example b in the
\* logged step st: incoming score of the parent slot plus the contribution
Cand(st, b, f) ==
  LET beam_in == Len(st.choice.scores_base[b])
  IN  st.choice.scores_base[b][(f \div NumValues) + 1]
      + st.choice.scores_in[(b - 1) * beam_in + (f \div NumValues) + 1]
                           [(f % NumValues) + 1]

\* candidate x is ranked before candidate y: higher score, or equal score
\* and lower flattened index
RankedBefore(st, b, x, y) ==
  \/ Cand(st, b, x) > Cand(st, b, y)
  \/ Cand(st, b, x) = Cand(st, b, y) /\ x < y

\* C8: at a choice point with beam width K the K retained entries of each
\* example are exactly the K highest entries of the flattened
\* (incoming-beam * D) matrix of (incoming score + contribution), and among
\* equal scores the entry with the lowest flattened index is retained first.
C8_TopKRetained ==
  Search =>
    \A t \in 1..Steps : \A b \in 1..batch_dim :
      LET st == step_log[t]
          top == st.choice.top_k[b]
          beam_in == Len(st.choice.scores_base[b])
          all == 0..(beam_in * NumValues - 1)
          kept == {top[k] : k \in 1..Len(top)}
      IN  /\ Len(top) = output_beam_size
          /\ kept \subseteq all
          /\ Cardinality(kept) = output_beam_size
          /\ \A k \in 1..Len(top) : \A f \in all \ kept :
               RankedBefore(st, b, top[k], f)
          /\ \A k1, k2 \in 1..Len(top) :
               k1 < k2 => RankedBefore(st, b, top[k1], top[k2])
          /\ \A k \in 1..Len(top) :
               st.choice.beam_scores[b][k] = Cand(st, b, top[k])

C8_Witness ==
  /\ Search /\ output_beam_size = 2 /\ Steps = 2
  /\ LET st == step_log[2]
         top == st.choice.top_k[1]
     IN  /\ st.choice.scores_base[1][1] # st.choice.scores_base[1][2]
         /\ \E f \in 0..(2 * NumValues - 1) :
              /\ f \notin {top[1], top[2]}
              /\ Cand(st, 1, f) = Cand(st, 1, top[2])
         /\ top[1] \div NumValues = 1

\* C9: for every retained slot, the recorded parent slot p and chosen value v
\* decode the selected flattened index f exactly: p = f div D, v = f mod D,
\* p * D + v = f, 0 <= p < incoming-beam and 0 <= v < D; v is that slot's
\* visible output for the step and p is what is written to the choice point's
\* parent-index buffer.
C9_DecodeParentAndValue ==
  (Search /\ pc # "DONE") =>
    \A t \in 1..Steps : \A b \in 1..batch_dim : \A k \in 1..output_beam_size :
      LET st == step_log[t]
          f == st.choice.top_k[b][k]
          beam_in == Len(st.choice.scores_base[b])
          p == TARead(acc_tas["choice_output"], t - 1)[b][k]
          v == TARead(acc_tas["output_output"], t - 1)[(b - 1) * output_beam_size + k]
      IN  /\ p * NumValues + v = f
          /\ 0 <= p /\ p < beam_in
          /\ 0 <= v /\ v < NumValues
          /\ p = f \div NumValues
          /\ v = f % NumValues
          /\ v = st.choice.labels[(b - 1) * output_beam_size + k]
          /\ t = Steps => v = ZipPrev(PrevOutputKeys, net_vars.outputs_flat)["output"][(b - 1) * output_beam_size + k]

C9_Witness ==
  /\ Search /\ pc = "RUNNING" /\ Steps = 2 /\ output_beam_size = 2
  /\ TARead(acc_tas["choice_output"], 1)[1] = <<1, 0>>
  /\ TARead(acc_tas["output_output"], 1) = <<1, 0>>

RECURSIVE LineageScore(_, _, _)
\* sum of the contributions of the values chosen along the lineage of the
\* hypothesis in slot k (1-based) of example b after t steps
LineageScore(t, b, k) ==
  IF t = 0 THEN 0
  ELSE LET st == step_log[t]
           beam_in == Len(st.choice.scores_base[b])
           p == st.produced["choice_output"][b][k]
           v == st.produced["output_output"][(b - 1) * output_beam_size + k]
       IN  LineageScore(t - 1, b, p + 1)
           + st.choice.scores_in[(b - 1) * beam_in + p + 1][v + 1]

\* the beam scores carried into the step with index t (0-based)
ScoresBefore(t) ==
  IF t = 0 THEN InitialChoiceScores(batch_dim, output_beam_size)
  ELSE step_log[t].choice.beam_scores

\* C10: beam scores start at 0 for every slot before the loop and accumulate
\* by addition: after each choice step the score of a retained slot equals the
\* score its parent slot had before the step plus the contribution of the
\* chosen value, so the score of a hypothesis is the sum of the contributions
\* along its lineage.
C10_ScoresAccumulate ==
  Search =>
    /\ \A b \in 1..batch_dim : \A k \in 1..output_beam_size :
         /\ Steps = 0 => net_vars.extra_flat[1][b][k] = 0
         /\ net_vars.extra_flat[1][b][k] = LineageScore(Steps, b, k)
         /\ pc = "DONE" => beam_scores[b][k] = LineageScore(Steps, b, k)
    /\ \A t \in 1..Steps : \A b \in 1..batch_dim : \A k \in 1..output_beam_size :
         LET st == step_log[t]
             beam_in == Len(st.choice.scores_base[b])
             p == st.produced["choice_output"][b][k]
             v == st.produced["output_output"][(b - 1) * output_beam_size + k]
             after == IF t = Steps THEN net_vars.extra_flat[1]
                      ELSE step_log[t + 1].choice.scores_base
         IN  /\ st.choice.scores_base = ScoresBefore(t - 1)
             /\ after[b][k] = ScoresBefore(t - 1)[b][p + 1]
                              + st.choice.scores_in[(b - 1) * beam_in + p + 1][v + 1]

C10_Witness ==
  /\ Search /\ pc = "DONE" /\ Steps = 2 /\ output_beam_size = 2
  /\ beam_scores[1] = <<0 - 1, 0 - 2>>
  /\ step_log[2].choice.scores_base[1] = <<0, 0 - 1>>
  /\ step_log[2].produced["choice_output"][1] = <<1, 0>>

\* C11: for each choice point, the number of slots retained per example is the
\* same at every step of the run and equals the configured beam width: the
\* incoming beam, the selected entries, the parent indices, the chosen values
\* and the carried scores all have beam-width entries per example, at the first
\* step and at steps in which some hypotheses have ended.
C11_BeamWidthFixed ==
  Search =>
    /\ \A b \in 1..batch_dim :
         Len(net_vars.extra_flat[1][b]) = output_beam_size
    /\ Len(ZipPrev(PrevOutputKeys, net_vars.outputs_flat)["output"]) = batch_dim * output_beam_size
    /\ \A t \in 1..Steps : \A b \in 1..batch_dim :
         LET st == step_log[t]
         IN  /\ Len(st.choice.scores_base[b]) = output_beam_size
             /\ Len(st.choice.top_k[b]) = output_beam_size
             /\ Len(st.choice.src_beams[b]) = output_beam_size
             /\ Len(st.choice.beam_scores[b]) = output_beam_size
             /\ Len(st.choice.labels) = batch_dim * output_beam_size
             /\ Len(st.produced["choice_output"][b]) = output_beam_size
             /\ Len(st.filtered.seq_filter_cond[b]) = output_beam_size
    /\ pc = "DONE" =>
         /\ \A b \in 1..batch_dim : Len(beam_scores[b]) = output_beam_size
         /\ \A j \in 1..Len(output) :
              Len(output[j]) = batch_dim * output_beam_size

C11_Witness ==
  /\ Search /\ ~have_known_seq_len /\ output_beam_size = 2 /\ Steps = 2
  /\ pc = "DONE" /\ Len(output) >= 1
  /\ step_log[1].end = <<TRUE, FALSE>>
  /\ step_log[2].filtered.seq_filter_cond[1][1] = FALSE

\* number of entries of the raw output buffer when the loop has ended
RawLen == Steps

\* raw accumulated output of the step with index t (0-based), (batch, beam)
RawOutput(t) ==
  Reshape2(step_log[t + 1].produced["output_output"], batch_dim, output_beam_size)

\* parent indices recorded in the buffer for the step with index t, (batch, beam)
RecordedParents(t) == TARead(acc_tas["choice_output"], t)

RECURSIVE Ancestor(_, _, _)
\* slot (0-based) of the ancestor at step t (0-based) of the final hypothesis
\* k (0-based) of example b: k itself at the last step; at step t - 1 the
\* parent recorded at step t for the ancestor at step t
Ancestor(t, b, k) ==
  IF t >= RawLen - 1 THEN k
  ELSE RecordedParents(t + 1)[b][Ancestor(t + 1, b, k) + 1]

\* C12: after backward resolution, for every final hypothesis b and every
\* step i the resolved output at (i, b) is the raw accumulated output of step
\* i at the slot that is the step-i ancestor of b (the ancestor at the last
\* step is b itself, the ancestor at step i-1 is the parent index recorded at
\* step i for the ancestor at step i); the resolved sequence follows lineage,
\* not raw slot position.
C12_ResolvedFollowsLineage ==
  (Search /\ pc = "DONE") =>
    /\ \A t \in 0..(RawLen - 1) : \A b \in 1..batch_dim :
         \A k \in 0..(output_beam_size - 1) :
           TARead(acc_tas["output_output"], t)[(b - 1) * output_beam_size + k + 1]
             = RawOutput(t)[b][Ancestor(t, b, k) + 1]
    /\ \A j \in 1..Len(output) : output[j] = TARead(acc_tas["output_output"], j - 1)

C12_Witness ==
  /\ Search /\ pc = "DONE" /\ Steps = 2 /\ output_beam_size = 2
  /\ RecordedParents(1)[1] = <<1, 0>>
  /\ step_log[1].produced["output_output"] = <<0, 1>>
  /\ Len(output) = 2 /\ output[1] = <<1, 0>>

\* the parent indices recorded at step rs_i for the tracked hypotheses
ParentsOfTracked ==
  [b \in 1..batch_dim |-> [k \in 1..output_beam_size |->
     RecordedParents(rs_i)[b][choice_beams[b][k] + 1]]]

\* C13 as stated: in the backward resolution at step i, the index used to
\* gather step i's raw accumulated output is the parent-slot index recorded at
\* step i for the currently tracked hypothesis, and that same parent index is
\* the tracked index carried to step i-1.
C13_Original ==
  [][ (pc = "RESOLVE" /\ rs_i >= 0) =>
        /\ choice_beams' = ParentsOfTracked
        /\ TARead(new_acc_output_ta', rs_i) =
             Flatten2([b \in 1..batch_dim |-> [k \in 1..output_beam_size |->
                         RawOutput(rs_i)[b][ParentsOfTracked[b][k] + 1]]],
                      batch_dim, output_beam_size)
    ]_vars

\* C13 (amended): in the backward resolution at step i, the index used to
\* gather step i's raw accumulated output is the currently tracked index
\* itself (the slot the hypothesis occupies after step i); the parent-slot
\* index recorded at step i for the tracked hypothesis is the tracked index
\* carried to step i-1, where it gathers the raw output of step i-1.
C13_GatherByTrackedIndex ==
  [][ (pc = "RESOLVE" /\ rs_i >= 0) =>
        /\ choice_beams' = ParentsOfTracked
        /\ TARead(new_acc_output_ta', rs_i) =
             Flatten2([b \in 1..batch_dim |-> [k \in 1..output_beam_size |->
                         RawOutput(rs_i)[b][choice_beams[b][k] + 1]]],
                      batch_dim, output_beam_size)
    ]_vars

C13_Witness ==
  /\ pc = "RESOLVE" /\ rs_i = 0 /\ Steps = 2 /\ output_beam_size = 2
  /\ choice_beams[1] = <<1, 0>>
  /\ TARead(new_acc_output_ta, 1) = <<0, 1>>

\* C14: the backward resolution starts at the last executed step with tracked
\* indices 0..K-1 for every example, visits the step indices T-1, ..., 0 in
\* strictly decreasing order, each exactly once, and then stops; the resolved
\* buffer has the same length T as the raw buffer and every index is written
\* exactly once (for T = 0 no step is visited).
C14_BackwardWalk ==
  /\ [](pc = "RESOLVE" =>
          /\ 0 - 1 <= rs_i /\ rs_i <= RawLen - 1
          /\ TASize(new_acc_output_ta) = RawLen
          /\ TASize(acc_tas["output_output"]) = RawLen
          /\ TAWritten(new_acc_output_ta) = (rs_i + 1)..(RawLen - 1))
  /\ []((Search /\ pc = "DONE") =>
          /\ rs_i = 0 - 1
          /\ TASize(acc_tas["output_output"]) = RawLen
          /\ TAWritten(acc_tas["output_output"]) = 0..(RawLen - 1))
  /\ [][ /\ (pc = "RUNNING" /\ pc' = "RESOLVE") =>
             /\ rs_i' = RawLen - 1
             /\ choice_beams' = [b \in 1..batch_dim |->
                                   [k \in 1..output_beam_size |-> k - 1]]
             /\ TAWritten(new_acc_output_ta') = {}
         /\ (pc = "RESOLVE" /\ rs_i >= 0) =>
             /\ pc' = "RESOLVE" /\ rs_i' = rs_i - 1
             /\ rs_i \notin TAWritten(new_acc_output_ta)
             /\ TAWritten(new_acc_output_ta') =
                  TAWritten(new_acc_output_ta) \cup {rs_i}
         /\ (pc = "RESOLVE" /\ rs_i < 0) =>
             /\ pc' = "DONE" /\ UNCHANGED resolveVars
         /\ pc = "DONE" => UNCHANGED resolveVars
       ]_vars

C14_Witness ==
  /\ Search /\ pc = "DONE" /\ Steps = MaxLen /\ output_beam_size = 2
  /\ TAWritten(acc_tas["output_output"]) = 0..(MaxLen - 1)
  /\ rs_i = 0 - 1

\* the resolved output sequence of slot s (1-based) of the rec layer
OutputSeqOf(s) == [t \in 1..Len(output) |-> output[t][s]]
\* the slot (1-based) of the hypothesis decided for example b
DecidedSlot(b) == (b - 1) * output_beam_size + decide_output.beam_idxs[b] + 1

\* C15 as stated: the decide operation selects, per example, the hypothesis
\* whose accumulated score is the maximum among the K final hypotheses, the
\* lowest beam index among equal maxima, and returns that hypothesis's output
\* sequence and recorded length.
C15_Original ==
  decide_output.present =>
    \A b \in 1..batch_dim :
      LET w == decide_output.beam_idxs[b] + 1
      IN  /\ \A k \in 1..output_beam_size : beam_scores[b][w] >= beam_scores[b][k]
          /\ \A k \in 1..(w - 1) : beam_scores[b][k] < beam_scores[b][w]
          /\ decide_output.placeholder[b] = OutputSeqOf(DecidedSlot(b))
          /\ decide_output.size_placeholder[b] = size_placeholder[DecidedSlot(b)]

\* C15 (amended): the decide operation selects, per example, a hypothesis
\* whose accumulated score is the maximum among that example's K final
\* hypotheses (which one of several hypotheses with equal maximal score is
\* not determined), and returns that same hypothesis's output sequence and
\* that same hypothesis's recorded length.
C15_DecideSelectsMax ==
  decide_output.present =>
    \A b \in 1..batch_dim :
      LET w == decide_output.beam_idxs[b] + 1
      IN  /\ w \in 1..output_beam_size
          /\ \A k \in 1..output_beam_size : beam_scores[b][w] >= beam_scores[b][k]
          /\ decide_output.placeholder[b] = OutputSeqOf(DecidedSlot(b))
          /\ decide_output.size_placeholder[b] = size_placeholder[DecidedSlot(b)]

C15_Witness ==
  /\ decide_output.present /\ output_beam_size = 2 /\ Len(output) = 2
  /\ beam_scores[1][1] = beam_scores[1][2]
  /\ decide_output.beam_idxs[1] = 1
  /\ decide_output.placeholder[1] = OutputSeqOf(2)
  /\ OutputSeqOf(1) # OutputSeqOf(2)

\* the per-step scores given to the choice point in step t (1-based)
ScoresGiven(t) == step_log[t].choice.scores_in

\* one step of example b in a run replayed from the beam width and the
\* per-step scores alone, from the beam scores `prev` and the scores given to
\* the step: `selections` are the selections the ranking admits (K entries in
\* ranking order, higher score first and of equal scores the lower flattened
\* index first, that precede every entry left out), `top` is one of them and
\* `scores` are the beam scores after the step
ReplayStep(prev, given, b) ==
       LET all == 0..(output_beam_size * NumValues - 1)
           cand == [f \in all |->
                      prev[(f \div NumValues) + 1]
                      + given[(b - 1) * output_beam_size + (f \div NumValues) + 1]
                             [(f % NumValues) + 1]]
           before(x, y) == cand[x] > cand[y] \/ (cand[x] = cand[y] /\ x < y)
           sels == {top \in [1..output_beam_size -> all] :
                      /\ \A k1, k2 \in 1..output_beam_size :
                           k1 < k2 => before(top[k1], top[k2])
                      /\ \A k \in 1..output_beam_size :
                           \A f \in all \ {top[q] : q \in 1..output_beam_size} :
                             before(top[k], f)}
           top == CHOOSE sel \in sels : TRUE
       IN  [scores |-> [k \in 1..output_beam_size |-> cand[top[k]]],
            top |-> top,
            selections |-> sels]

RECURSIVE ReplayRun(_, _)
\* the first t steps of the replayed run of example b, from scores 0
ReplayRun(t, b) ==
  IF t = 0 THEN <<>>
  ELSE LET run == ReplayRun(t - 1, b)
           prev == IF t = 1 THEN [k \in 1..output_beam_size |-> 0]
                   ELSE run[t - 1].scores
       IN  Append(run, ReplayStep(prev, ScoresGiven(t), b))

RECURSIVE ReplayAncestor(_, _, _)
\* slot (1-based) of the step-t ancestor of the final hypothesis k (1-based)
\* in the replayed run `run`
ReplayAncestor(run, t, k) ==
  IF t >= Len(run) THEN k
  ELSE (run[t + 1].top[ReplayAncestor(run, t + 1, k)] \div NumValues) + 1

\* C16: beam search is deterministic: the parent indices and chosen values of
\* every step, the final scores and the resolved output sequences are
\* functions of the beam width K and the per-step scores alone (so two runs
\* with the same inputs produce identical results), including when candidate
\* scores tie: at every step exactly one selection is admitted.
C16_BeamSearchDeterministic ==
  Search =>
    \A b \in 1..batch_dim :
      LET run == ReplayRun(Steps, b)
          final == IF Steps = 0 THEN [k \in 1..output_beam_size |-> 0]
                   ELSE run[Steps].scores
      IN  /\ \A t \in 1..Steps :
               /\ Cardinality(run[t].selections) = 1
               /\ \A k \in 1..output_beam_size :
                    /\ step_log[t].produced["choice_output"][b][k]
                         = run[t].top[k] \div NumValues
                    /\ step_log[t].produced["output_output"]
                                  [(b - 1) * output_beam_size + k]
                         = run[t].top[k] % NumValues
          /\ net_vars.extra_flat[1][b] = final
          /\ pc = "DONE" => beam_scores[b] = final
          /\ pc = "DONE" =>
               \A j \in 1..Len(output) : \A k \in 1..output_beam_size :
                 output[j][(b - 1) * output_beam_size + k]
                   = run[j].top[ReplayAncestor(run, j, k)] % NumValues

C16_Witness ==
  /\ Search /\ pc = "DONE" /\ Steps = 2 /\ output_beam_size = 2
  /\ Len(output) = 2
  /\ step_log[2].produced["choice_output"][1] = <<1, 0>>
  /\ \E f \in 0..(2 * NumValues - 1) :
       /\ f \notin {step_log[2].choice.top_k[1][1], step_log[2].choice.top_k[1][2]}
       /\ step_log[2].choice.scores_in_flat[1][f + 1] = beam_scores[1][2]
  /\ output[1] # step_log[1].produced["output_output"]

\* the flattened slot (1-based) of beam entry k (1-based) of example b
SlotOf(b, k) == (b - 1) * output_beam_size + k
\* the mask given to the choice point in logged step t marks slot (b, k) active
MaskActive(t, b, k) == step_log[t].filtered.seq_filter_cond[b][k]
\* the hypothesis in slot (b, k) has ended when logged step t is over
EndedAfter(t, b, k) ==
  IF have_known_seq_len THEN t - 1 >= seq_len[SlotOf(b, k)]
  ELSE \E u \in 1..t : step_log[u].end[SlotOf(b, k)]

\* C17 as stated: once the end signal has fired for a hypothesis it is marked
\* ended; in every later step an ended hypothesis is excluded from the score
\* comparison at every choice point (no retained entry descends from it),
\* while its accumulated output values are carried forward unchanged; the mask
\* given to each choice point at step i marks a slot as still active iff
\* i < its known length, or, when the length is unknown, iff its end flag
\* (including this step's signal) is false.
C17_EndedExcluded ==
  (Search /\ pc = "RUNNING") =>
    \A b \in 1..batch_dim : \A k \in 1..output_beam_size :
      /\ seq_len_info.present =>
           (seq_len_info.end_flag[SlotOf(b, k)] <=> EndedAfter(Steps, b, k))
      /\ \A t \in 1..Steps :
           /\ MaskActive(t, b, k) <=> ~EndedAfter(t, b, k)
           /\ TARead(acc_tas["output_output"], t - 1)
                = step_log[t].produced["output_output"]
           /\ t > 1 =>
                ~EndedAfter(t - 1, b, step_log[t].produced["choice_output"][b][k] + 1)

\* an ended hypothesis takes part in the comparison of the next step and both
\* retained entries descend from it
C17_Witness ==
  /\ Search /\ ~have_known_seq_len /\ output_beam_size = 2 /\ Steps = 2
  /\ step_log[1].end = <<TRUE, FALSE>>
  /\ ~MaskActive(1, 1, 1) /\ MaskActive(1, 1, 2)
  /\ step_log[2].produced["choice_output"][1] = <<0, 0>>
  /\ step_log[2].choice.beam_scores[1][1] < step_log[1].choice.beam_scores[1][1]

RECURSIVE LineageSlot(_, _, _, _)
\* beam entry (1-based) that the hypothesis in entry k of example b after
\* logged step t occupied after logged step j <= t
LineageSlot(t, j, b, k) ==
  IF j >= t THEN k
  ELSE step_log[j + 1].produced["choice_output"][b][LineageSlot(t, j + 1, b, k)] + 1

\* the values chosen in logged steps 1 .. n along the lineage of the
\* hypothesis in entry k of example b after logged step t
LineageValues(t, n, b, k) ==
  [j \in 1..n |->
     step_log[j].produced["output_output"][SlotOf(b, LineageSlot(t, j, b, k))]]

\* C18: under search, every value carried from step t to step t+1 for a
\* layer downstream of a choice point is re-indexed by the parent-slot indices
\* recorded at the choice point before it is used in step t+1, so that in step
\* t+1 the carried values in slot s all belong to the hypothesis that occupies
\* slot s: the carried state of the cell "s" in slot s is the state built from
\* the values chosen along the lineage of that hypothesis.
C18_CarriedFollowHypothesis ==
  Search =>
    \A t \in 1..Steps : \A b \in 1..batch_dim : \A k \in 1..output_beam_size :
      step_log[t].extra_flat[2][SlotOf(b, k)]
        = <<0>> \o LineageValues(t, t - 1, b, k)

\* the carried state of slot 0 is built from the value of another hypothesis
C18_Witness ==
  /\ Search /\ pc = "RUNNING" /\ Steps = 2 /\ output_beam_size = 2
  /\ step_log[1].produced["output_output"] = <<0, 1>>
  /\ step_log[2].produced["choice_output"][1] = <<1, 0>>
  /\ net_vars.extra_flat[2] = <<<<0, 0>>, <<0, 1>>>>
  /\ LineageValues(2, 1, 1, 1) = <<1>>

\* MUST_STAY_IN_LOOP, HOISTED_BEFORE and HOISTED_AFTER as sets
MustStayInLoop == SeqToSet(layers_in_loop)
HoistedBefore == SeqToSet(input_layers_moved_out)
HoistedAfter == SeqToSet(output_layers_moved_out)
\* the list q names no layer twice
NoDuplicates(q) == \A j, k \in 1..Len(q) : q[j] = q[k] => j = k

\* C19: at every iteration of the hoisting analysis and at its end, the three
\* sets MUST_STAY_IN_LOOP, HOISTED_BEFORE and HOISTED_AFTER are pairwise
\* disjoint and their union is exactly the set of template nodes: every node
\* is in exactly one set and no node is lost or duplicated.
C19_HoistingPartition ==
  /\ MustStayInLoop \cap HoistedBefore = {}
  /\ MustStayInLoop \cap HoistedAfter = {}
  /\ HoistedBefore \cap HoistedAfter = {}
  /\ MustStayInLoop \cup HoistedBefore \cup HoistedAfter = layer_data_templates
  /\ NoDuplicates(layers_in_loop)
  /\ NoDuplicates(input_layers_moved_out)
  /\ NoDuplicates(output_layers_moved_out)

\* the analysis has ended with a layer in each of the three sets
C19_Witness ==
  /\ hoist_pc = "END"
  /\ MustStayInLoop # {} /\ HoistedBefore # {} /\ HoistedAfter # {}

\* the layer may be computed after the loop: it is not needed from the
\* previous frame and no layer of in_loop depends on it
FreeOfLoop(layer, in_loop) ==
  /\ layer \notin prev_layers_needed
  /\ \A other_layer \in in_loop : layer \notin GetDepLayers(other_layer)

\* C20: whenever the hoisting analysis moves a node to HOISTED_AFTER, at that
\* moment the node is not in the set of names needed as a previous-step value
\* and no node still in the loop has it as a dependency; hence at the end (and
\* at every iteration) no HOISTED_AFTER node is a previous-step-referenced
\* name or a dependency of a MUST_STAY_IN_LOOP node.
C20_HoistedAfterFree ==
  /\ [](\A layer \in HoistedAfter : FreeOfLoop(layer, MustStayInLoop))
  /\ [][\A layer \in SeqToSet(output_layers_moved_out') \ HoistedAfter :
          FreeOfLoop(layer, MustStayInLoop)]_vars

\* "output" has just been moved behind the loop while other layers, one of
\* them needed from the previous frame, are still in the loop
C20_Witness ==
  /\ hoist_pc = "INPUT"
  /\ output_layer = "output"
  /\ HoistedAfter = {"output"}
  /\ Cardinality(MustStayInLoop) = 2
  /\ prev_layers_needed \cap MustStayInLoop # {}

\* the names that the declaration of `layer` references with "prev:"
PrevRefsOf(layer) == {r.name : r \in {q \in ConstructLayerRefs(net_dict, layer) : q.prev}}

\* C21: whenever the hoisting analysis moves a node to HOISTED_BEFORE, at that
\* moment none of the node's dependencies (including its previous-step
\* references) is still in the loop.
C21_HoistedBeforeDepsOut ==
  [][\A layer \in SeqToSet(input_layers_moved_out') \ HoistedBefore :
       /\ GetDepLayers(layer) \cap MustStayInLoop = {}
       /\ PrevRefsOf(layer) \cap MustStayInLoop = {}]_vars

\* "end" has been moved before the loop after the layer it references from
\* the previous frame
C21_Witness ==
  /\ input_layers_moved_out = <<"a", "end">>
  /\ PrevRefsOf("end") = {"a"}
  /\ GetDepLayers("end") = {"a"}

SameStepRefsOf(layer) ==
  {r.name : r \in {q \in ConstructLayerRefs(net_dict, layer) : ~q.prev}}

RECURSIVE SameStepReach(_)
\* the layers reached from the set `from` over same-step references
SameStepReach(from) ==
  LET more == from \cup UNION {SameStepRefsOf(n) : n \in from}
  IN  IF more = from THEN from ELSE SameStepReach(more)

\* C23: template graph construction fails with a configuration error whenever
\* the declaration contains a cycle of same-step dependencies; equivalently,
\* after every successful construction the dependency graph restricted to
\* same-step edges is acyclic: no templated layer reaches itself over
\* same-step references.
C23_SameStepAcyclic ==
  \A layer \in layer_data_templates :
    layer \notin SameStepReach(SameStepRefsOf(layer))

\* construction has succeeded for "output" from "a" and "a" from "output",
\* both in the same step
C23_Witness ==
  /\ hoist_pc = "OUTPUT"
  /\ layer_data_templates = {"a", "output"}
  /\ SameStepRefsOf("output") = {"a"} /\ SameStepRefsOf("a") = {"output"}
  /\ prev_layers_needed = {}
  /\ dependencies = [n \in {"a", "output"} |-> IF n = "a" THEN {"output"} ELSE {"a"}]

\* the construction has returned without raising
ConstructDone == construct_pc = "DONE"

\* C24: after every successful template graph construction exactly one
\* template is named "output" (the templates are kept by name, and "output" is
\* among them and declared); a declaration without an "output" layer makes
\* construction fail, at its first step, and the construction never succeeds.
C24_OutputTemplate ==
  /\ ConstructDone => "output" \in layer_data_templates \cap DOMAIN net_dict
  /\ ("output" \notin DOMAIN net_dict /\ construct_pc # "START") =>
       (construct_pc = "ERROR" /\ construct_error = "LayerNotFound")

\* construction has failed for a declaration that has layers but no "output"
C24_Witness ==
  /\ construct_pc = "ERROR"
  /\ DOMAIN net_dict = {"a", "end"}
  /\ construct_error = "LayerNotFound"

\* the names that a templated and declared layer references with "prev:"
PrevReferenced ==
  UNION {PrevRefsOf(layer) : layer \in layer_data_templates \cap DOMAIN net_dict}

\* C25: after template graph construction the recorded previous-step set
\* equals exactly the set of names that some templated layer references with
\* the "prev:" prefix (no more, no fewer), and every name in it has a
\* template; while the construction runs the set holds no other name and no
\* name without a template.
C25_PrevSetExact ==
  /\ prev_layers_needed \subseteq PrevReferenced
  /\ prev_layers_needed \subseteq layer_data_templates
  /\ ConstructDone => prev_layers_needed = PrevReferenced

\* construction has succeeded with one layer referenced from the previous
\* step only, one from the same step only, and "output" referencing itself
C25_Witness ==
  /\ ConstructDone
  /\ layer_data_templates = {"a", "end", "output"}
  /\ prev_layers_needed = {"a", "output"}
  /\ PrevRefsOf("output") = {"a", "output"}
  /\ SameStepRefsOf("end") = {"output"} /\ PrevRefsOf("end") = {}

\* C26: the carried state has the same key set and the same ordering at every
\* step as the initial carried state: the output keys are exactly the
\* previous-step-referenced names and the auxiliary keys are exactly the
\* layers exposing auxiliary recurrent state; every key has a defined initial
\* value at step 0 (the "end" layer's initial value is false for every
\* example).
C26_CarriedKeysFixed ==
  /\ SeqToSet(PrevOutputKeys) = prev_layers_needed
  /\ Len(net_vars.outputs_flat) = Len(PrevOutputKeys)
  /\ Len(net_vars.extra_flat) = Len(InitialExtraKeys)
  /\ \A t \in 1..Steps :
       /\ step_log[t].output_keys = PrevOutputKeys
       /\ step_log[t].extra_keys = InitialExtraKeys
       /\ DOMAIN step_log[t].rec_vars_outputs = InitialExtraLayers
       /\ DOMAIN step_log[t].prev_outputs = prev_layers_needed
       /\ DOMAIN step_log[t].prev_extra = InitialExtraLayers
  /\ Steps >= 1 =>
       /\ \A name \in prev_layers_needed :
            /\ Len(step_log[1].prev_outputs[name]) = Slots
            /\ \A s \in 1..Slots :
                 step_log[1].prev_outputs[name][s] = (IF name = "end" THEN FALSE ELSE 0)
       /\ \A name \in InitialExtraLayers :
            step_log[1].prev_extra[name] = GetInitExtraOutputs(name)

\* two steps have run with two output keys and two auxiliary keys
C26_Witness ==
  /\ Steps = 2
  /\ PrevOutputKeys = <<"end", "output">>
  /\ InitialExtraKeys = <<"output", "s">>
  /\ step_log[2].output_keys = <<"end", "output">>
  /\ \E s \in 1..Slots : step_log[2].prev_outputs["end"][s]

\* C27: for every name X in the carried state and every step t >= 1, the
\* value a layer reads through "prev:X" in step t is exactly the value (output
\* and auxiliary state) that layer X produced in step t-1, and in step 0 it is
\* X's initial value; values of different names are never exchanged, and the
\* previous step is not re-executed (one step is recorded per iteration).
C27_PrevIsLastProduced ==
  /\ Len(step_log) = i
  /\ \A t \in 1..Steps :
       /\ \A name \in prev_layers_needed :
            step_log[t].prev_outputs[name]
              = IF t = 1 THEN GetInitOutput(name) ELSE step_log[t - 1].outputs[name]
       /\ \A name \in InitialExtraLayers :
            step_log[t].prev_extra[name]
              = IF t = 1 THEN GetInitExtraOutputs(name)
                ELSE step_log[t - 1].rec_vars_outputs[name]
  /\ pc = "RUNNING" /\ Steps >= 1 =>
       /\ \A name \in prev_layers_needed :
            ZipPrev(PrevOutputKeys, net_vars.outputs_flat)[name]
              = step_log[Steps].outputs[name]
       /\ \A name \in InitialExtraLayers :
            ZipPrev(InitialExtraKeys, net_vars.extra_flat)[name]
              = step_log[Steps].rec_vars_outputs[name]

\* the second step has read, under search, the values and the end signals
\* that the first step produced, different from slot to slot
C27_Witness ==
  /\ Search /\ Steps = 2 /\ output_beam_size = 2
  /\ prev_layers_needed = {"end", "output"}
  /\ step_log[2].prev_outputs["output"] = <<0, 1>>
  /\ step_log[2].prev_outputs["end"] = <<FALSE, TRUE>>
  /\ step_log[2].prev_extra["s"] = <<<<0>>, <<0>>>>
  /\ step_log[2].prev_extra["output"] = step_log[1].choice.beam_scores

\* the layers instantiated in logged step t
InstantiatedIn(t) == DOMAIN step_log[t].outputs

\* every layer that is read after logged step t exists in that step: the
\* carried outputs and auxiliary values, the accumulated output, the losses
\* and errors, and the parent indices of the choices
ReadLayersExist(t) ==
  /\ SeqToSet(step_log[t].output_keys) \subseteq InstantiatedIn(t)
  /\ SeqToSet(step_log[t].extra_keys) \subseteq InstantiatedIn(t)
  /\ "output" \in InstantiatedIn(t)
  /\ layer_names_with_losses \subseteq InstantiatedIn(t)
  /\ SeqToSet(collected_choices) \subseteq InstantiatedIn(t)

\* C28: each step instantiates every layer needed by "output", the "end"
\* layer when declared, every name in the previous-step-referenced set and
\* every layer carrying a loss; so every layer whose value is carried to the
\* next step or accumulated (output, loss, error, choice parent indices)
\* exists in the step when it is read.
C28_StepInstantiatesNeeded ==
  \A t \in 1..Steps :
    /\ SameStepClosure(net_dict, {"output"}) \subseteq InstantiatedIn(t)
    /\ "end" \in DOMAIN net_dict => "end" \in InstantiatedIn(t)
    /\ prev_layers_needed \subseteq InstantiatedIn(t)
    /\ loss_declared \subseteq InstantiatedIn(t)
    /\ ReadLayersExist(t)

\* a step has run in which the loss of "output" is collected and the layer
\* "a", declared with a loss, is not instantiated
C28_Witness ==
  /\ Steps >= 1
  /\ loss_declared = {"a", "output"}
  /\ layer_names_with_losses = {"output"}
  /\ "a" \in DOMAIN net_dict
  /\ "a" \notin InstantiatedIn(1)
  /\ "a" \notin layer_data_templates

\* the exception of _construct for a data key without a value
DataKeyError == build_error = "Exception: subnet data key is not set"

MaxSeqLenError ==
  build_error = "AssertionError: must specify max_seq_len in rec layer"
EndLayerError ==
  build_error = "AssertionError: You need to have an 'end' layer"

\* C30: when the sequence length is not known in advance, building the loop
\* fails before any step is executed if the subnetwork has no "end" layer, or
\* if no maximum sequence length was configured; when the length is known
\* neither is required.
C30_UnknownLengthNeedsEndAndMax ==
  /\ (seq_len = None /\ pc \notin {"BUILD"} /\ self_max_seq_len = 0)
       => (pc = "ERROR" /\ MaxSeqLenError /\ step_log = <<>>)
  /\ (seq_len = None /\ pc \notin {"BUILD", "BUILD_ACC"}
        /\ "end" \notin layer_data_templates)
       => (pc = "ERROR" /\ (MaxSeqLenError \/ EndLayerError) /\ step_log = <<>>)
  /\ seq_len # None => (~MaxSeqLenError /\ ~EndLayerError)
  /\ pc = "RUNNING" => (have_known_seq_len <=> seq_len # None)

\* the loop has been built for a known length without an "end" layer and
\* without a configured maximum
C30_Witness ==
  /\ pc = "RUNNING"
  /\ seq_len # None
  /\ "end" \notin layer_data_templates
  /\ self_max_seq_len = 0
  /\ max_seq_len = SeqMax(seq_len)

\* the frames of row b that the recurrence reads, in the order it reads them
ValidFrames(inp, b) ==
  LET n == inp.seq_len[b]
  IN  [t \in 1..n |-> IF inp.direction = -1 THEN inp.x[n - t + 1][b]
                      ELSE inp.x[t][b]]

\* C31: asking a rec layer for its final state fails when its unit recorded
\* none (a subnetwork, a cuDNN unit) and hands back no value then; otherwise
\* it hands back the state recorded when the layer was built, which is the
\* state of the recurrence after the last valid frame of every row
C31_LastHiddenStateOrError ==
  hidden_state_call.called =>
    IF cell_unit \in {"subnet", "cudnn"}
    THEN /\ last_hidden_state = None
         /\ hidden_state_call.error # NoError
         /\ hidden_state_call.value = None
    ELSE /\ hidden_state_call.error = NoError
         /\ hidden_state_call.value # None
         /\ hidden_state_call.value = last_hidden_state
         /\ hidden_state_call.value =
              [b \in 1..Len(rec_input.seq_len) |->
                 StartState(rec_input)[b] \o ValidFrames(rec_input, b)]

\* the final state of a subnetwork unit is asked for after its loop has run
\* two steps
C31_Witness ==
  /\ hidden_state_call.called
  /\ cell_unit = "subnet"
  /\ Steps = 2
  /\ hidden_state_call.error # NoError

\* the loss of layer n that logged step t produced for example b
StepLoss(n, t, b) == step_log[t].produced[LossName(n)][b]

RECURSIVE ExpectedLoss(_, _, _)
\* the sum of scale * loss over the triples (layer, step, example) of `todo`
ExpectedLoss(todo, lens, scale) ==
  IF todo = {} THEN 0
  ELSE LET x == CHOOSE y \in todo : TRUE
       IN  scale[x[1]] * StepLoss(x[1], x[2], x[3])
           + ExpectedLoss(todo \ {x}, lens, scale)

\* the triples (layer, step, example) with the step before the example's end
ValidLossTerms(lens) ==
  {x \in layer_names_with_losses \X (1..Steps) \X (1..batch_dim) :
     x[2] - 1 < lens[x[3]]}

\* C32: once the loop has ended with losses collected, the accumulated loss
\* is the sum over the layers with a loss of loss_scale times the per-step
\* loss over all (step t, example b) with t < length of b, steps at or after
\* the length contribute nothing, and the normalization factor is
\* 1 / (sum of the lengths)
C32_AccumulatedLoss ==
  (DriverDone /\ Eval) =>
    /\ sub_loss.present
    /\ ~sub_loss.failed
    /\ sub_loss.loss = ExpectedLoss(ValidLossTerms(seq_len), seq_len, loss_scale)
    /\ sub_loss.norm_den = SeqSum(seq_len)

\* the length is not known, the end signal fires in the first step for the
\* one example, and the loss of that step cannot be masked: the mask has no
\* row and the stacked loss has one
C32_Witness ==
  /\ DriverDone /\ Eval
  /\ ~have_known_seq_len
  /\ batch_dim = 1
  /\ Steps = 1
  /\ step_log[1].end = <<TRUE>>
  /\ seq_len = <<0>>
  /\ TASize(acc_tas[LossName("output")]) = 1
  /\ MaskRows(seq_len) = 0
  /\ sub_loss.failed

\* the step of the building that instantiates the layers of a step:
\* _construct has made the "prev:" copies and the real layers
StepInstantiated == pc = "BUILD_LOOP" /\ pc' = "RUNNING"

\* C33: step instantiation (the previous-step copies and the real layers of a
\* step) changes no template's name, output descriptor, dependency set or
\* options, and changes neither the previous-step-referenced set nor the
\* stored declaration
C33_TemplatesImmutable ==
  [][StepInstantiated =>
       /\ layer_data_templates' = layer_data_templates
       /\ template_output' = template_output
       /\ dependencies' = dependencies
       /\ prev_layers_needed' = prev_layers_needed
       /\ net_dict' = net_dict]_vars

\* the layers of a step have been instantiated for a cell whose "output"
\* reads its own previous value, and the Data object of the template
\* "output" now holds the carried value as its placeholder
C33_Witness ==
  /\ pc = "RUNNING"
  /\ net_layers = {"output"}
  /\ prev_layers_needed = {"output"}
  /\ template_output["output"].placeholder = <<"prev_output">>
  /\ template_output["output"].dtype = TemplateData("output").dtype

\* the end signal of slot s fired in one of the steps 0..t
EndedUpTo(s, t) == \E u \in 0..t : EndFired(s, u)

\* C34: the end flags are monotone. Before the first step all flags are false
\* and all length counters 0; the flag after step t is the OR of the end
\* signals of the steps 0..t; a flag once set is never cleared; the counter of
\* a slot goes up by exactly 1 in a step iff its flag is false after the
\* update of that step, and stays as it is once the flag is set
C34_EndFlagsMonotone ==
  /\ [](seq_len_info.present =>
          \A s \in 1..Slots :
            /\ seq_len_info.end_flag[s] = EndedUpTo(s, Steps - 1)
            /\ seq_len_info.dyn_seq_len[s] =
                 Cardinality({t \in 0..(Steps - 1) : ~EndedUpTo(s, t)})
            /\ Steps = 0 => (~seq_len_info.end_flag[s]
                             /\ seq_len_info.dyn_seq_len[s] = 0))
  /\ [][seq_len_info.present =>
          \A s \in 1..Slots :
            /\ seq_len_info.end_flag[s] => seq_len_info'.end_flag[s]
            /\ seq_len_info.end_flag[s] =>
                 seq_len_info'.dyn_seq_len[s] = seq_len_info.dyn_seq_len[s]
            /\ seq_len_info'.dyn_seq_len[s] =
                 seq_len_info.dyn_seq_len[s]
                 + (IF i' = i + 1 /\ ~seq_len_info'.end_flag[s] THEN 1 ELSE 0)]_vars

\* two steps have run; the end signal of the first slot fired in the first
\* step only, that of the second slot never
C34_Witness ==
  /\ seq_len_info.present
  /\ Slots = 2
  /\ Steps = 2
  /\ step_log[1].end = <<TRUE, FALSE>>
  /\ step_log[2].end = <<FALSE, FALSE>>
  /\ seq_len_info.end_flag = <<TRUE, FALSE>>
  /\ seq_len_info.dyn_seq_len = <<0, 2>>

\* the layer may be computed before the loop: none of its dependencies is
\* in the loop
DepsOutOfLoop(layer, in_loop) == GetDepLayers(layer) \cap in_loop = {}

C36_HoistingTerminates ==
  /\ <>(hoist_pc = "END")
  /\ [](hoist_round <= Cardinality(layer_data_templates) + 1)
  /\ [][/\ SeqToSet(layers_in_loop') \subseteq MustStayInLoop
        /\ (hoist_pc = "INPUT" /\ hoist_pc' = "OUTPUT") =>
             \/ output_layer # NoLayer
             \/ Len(layers_in_loop') < Len(layers_in_loop)
        /\ (hoist_pc = "OUTPUT" /\ output_layer' # NoLayer) =>
             Len(layers_in_loop') < Len(layers_in_loop)]_vars

\* the analysis has ended after N + 1 = 4 rounds: the first three rounds each
\* moved one of the three nodes out of the loop
C36_Witness ==
  /\ hoist_pc = "END"
  /\ Cardinality(layer_data_templates) = 3
  /\ hoist_round = 4
  /\ layers_in_loop = <<>>

\* the layers moved before the loop earlier than the j-th one
MovedBeforeEarlier(j) == {input_layers_moved_out[k] : k \in 1..(j - 1)}

\* C37: HOISTED_BEFORE is closed under dependencies and ordered: every
\* dependency of a HOISTED_BEFORE node is in HOISTED_BEFORE and was moved
\* there earlier, it is neither in HOISTED_AFTER nor in MUST_STAY_IN_LOOP, so
\* the nodes can be evaluated before the loop in the order they were moved
C37_HoistedBeforeClosed ==
  \A j \in 1..Len(input_layers_moved_out) :
    LET deps == GetDepLayers(input_layers_moved_out[j])
    IN  /\ deps \subseteq MovedBeforeEarlier(j)
        /\ deps \cap HoistedAfter = {}
        /\ deps \cap MustStayInLoop = {}

\* "a" and then "end", which reads "a", have been moved before the loop,
\* while "output" has been moved behind it
C37_Witness ==
  /\ hoist_pc = "END"
  /\ input_layers_moved_out = <<"a", "end">>
  /\ GetDepLayers("end") = {"a"}
  /\ output_layers_moved_out = <<"output">>

\* the end signal fired at some logged step 1 .. n along the lineage of the
\* hypothesis in entry k of example b after logged step t
LineageEnded(t, n, b, k) ==
  \E j \in 1..n : step_log[j].end[SlotOf(b, LineageSlot(t, j, b, k))]

\* the steps of that lineage before its end signal fired
LineageLength(t, b, k) ==
  Cardinality({j \in 1..t : ~LineageEnded(t, j, b, k)})

\* C38: under beam search with a dynamic end signal, the end flag and the
\* length counter of a slot follow hypothesis identity: after step t the flag
\* of slot s is set iff the end signal fired at some step <= t along the
\* lineage of the hypothesis occupying slot s after step t, and its counter is
\* that lineage's length, also when pruning moved the hypothesis to another
\* slot.
C38_FlagsFollowHypothesis ==
  (Search /\ seq_len_info.present) =>
    \A b \in 1..batch_dim : \A k \in 1..output_beam_size :
      /\ seq_len_info.end_flag[SlotOf(b, k)] <=> LineageEnded(Steps, Steps, b, k)
      /\ seq_len_info.dyn_seq_len[SlotOf(b, k)] = LineageLength(Steps, b, k)

\* the hypothesis of slot 1 is retained in both slots after the hypothesis of
\* slot 0 has ended: slot 0 keeps the flag and the counter of the pruned one
C38_Witness ==
  /\ Search /\ seq_len_info.present /\ output_beam_size = 2 /\ Steps = 2
  /\ step_log[1].end = <<TRUE, FALSE>>
  /\ step_log[2].produced["choice_output"][1] = <<1, 1>>
  /\ step_log[2].end = <<FALSE, FALSE>>
  /\ seq_len_info.end_flag = <<TRUE, FALSE>>
  /\ seq_len_info.dyn_seq_len = <<0, 2>>
  /\ ~LineageEnded(2, 2, 1, 1) /\ LineageLength(2, 1, 1) = 2

\* C39: under beam search with beam width K > 1, the K slots retained for an
\* example hold pairwise distinct hypotheses at every step starting from step
\* 0: no two retained slots have the same sequence of chosen values from step
\* 0 to the current step.
C39_DistinctHypotheses ==
  (Search /\ output_beam_size > 1) =>
    \A t \in 1..Steps : \A b \in 1..batch_dim :
      \A k1, k2 \in 1..output_beam_size :
        k1 # k2 => LineageValues(t, t, b, k1) # LineageValues(t, t, b, k2)

\* step 0 gives both initial slots the same per-step scores; the choice keeps
\* the best value of slot 0 and the same value of slot 1
C39_Witness ==
  /\ Search /\ pc = "RUNNING" /\ output_beam_size = 2 /\ Steps = 1
  /\ step_log[1].choice.scores_base[1] = <<0, 0>>
  /\ step_log[1].choice.scores_in_flat[1] = <<0, -1, 0, -1>>
  /\ step_log[1].produced["choice_output"][1] = <<0, 1>>
  /\ step_log[1].produced["output_output"] = <<0, 0>>
  /\ LineageValues(1, 1, 1, 1) = LineageValues(1, 1, 1, 2)

\* every layer the declaration refers to is declared, "output" included
AllRefsDeclared ==
  /\ "output" \in DOMAIN net_dict
  /\ \A n \in DOMAIN net_dict : \A r \in net_dict[n] : r.name \in DOMAIN net_dict

\* C40: for every declaration that contains an "end" layer, template graph
\* construction completes and yields a template for "end", both when "end" is
\* reachable from "output" (so its template already exists when "end" is
\* resolved as an entry point) and when it is not.
C40_EndTemplateConstructed ==
  ("end" \in DOMAIN net_dict /\ AllRefsDeclared) =>
    /\ construct_pc # "ERROR"
    /\ ConstructDone => "end" \in layer_data_templates

\* "output" refers to "end": the template of "end" exists when "end" is asked
\* for as an entry point, and the construction has ended with an IndexError
C40_Witness ==
  /\ DOMAIN net_dict = {"output", "end"}
  /\ net_dict["output"] = {[name |-> "end", prev |-> FALSE]}
  /\ net_dict["end"] = {}
  /\ layer_data_templates = {"output", "end"}
  /\ construct_ctx = <<>>
  /\ construct_pc = "ERROR"
  /\ construct_error = "IndexError"

=============================================================================
